---- MODULE Spec2Model ----
(***************************************************************************)
(* Client-side attribute encryption in front of a DynamoDB-compatible      *)
(* store: the encrypted client (pkg/encrypted), the KMS materials provider *)
(* and its versioned material store (pkg/provider), the delegated keys     *)
(* and the attribute-value conversions (pkg/utils).                        *)
(*                                                                         *)
(* Several specifications share the definitions below.                     *)
(*   PipeSpec  one caller, every handler one atomic action, a reliable     *)
(*             store, a rich universe of attribute values and action       *)
(*             configurations, and an adversary that rewrites stored data. *)
(*   Spec      two threads on one client, every handler split at its store *)
(*             calls, store calls that may fail.                           *)
(*   ReadSpec  Spec with GetItem next to the writers.                      *)
(*   SerdeSpec the byte codec; CacheSpec the schema cache; OpsSpec the     *)
(*             read operations and BatchWriteItem; PagerSpec the           *)
(*             paginator; KeySpec the delegated keys and the materials;    *)
(*             NameSpec one caller with key values that contain "-".       *)
(***************************************************************************)
EXTENDS Integers, Sequences, FiniteSets, TLC

(***************************************************************************)
(* Attribute values (types.AttributeValue).  Every value is a record of    *)
(* one shape so that any two can be compared:                              *)
(*   t  the member type: "S" "N" "B" "BOOL" "NULL" "L" "M"                 *)
(*   s  the scalar content as text (string, number text, bytes, bool)      *)
(*   l  the members of a list                                              *)
(*   m  the entries of a map, a set of <<key, value>>                      *)
(*   c  for a binary value that is an AEAD ciphertext, the ciphertext      *)
(***************************************************************************)
JNull == [j |-> "null", s |-> "", a |-> <<>>, o |-> {}]
JStr(x) == [j |-> "str", s |-> x, a |-> <<>>, o |-> {}]
JBool(x) == [j |-> "bool", s |-> x, a |-> <<>>, o |-> {}]
JArr(x) == [j |-> "arr", s |-> "", a |-> x, o |-> {}]
JObj(x) == [j |-> "obj", s |-> "", a |-> <<>>, o |-> x]

\* Bytes that are not a ciphertext of any key.
NoCt == [k |-> 0, n |-> 0, ad |-> "", pt |-> JNull]

AvS(x) == [t |-> "S", s |-> x, l |-> <<>>, m |-> {}, c |-> NoCt]
AvN(x) == [t |-> "N", s |-> x, l |-> <<>>, m |-> {}, c |-> NoCt]
AvB(x) == [t |-> "B", s |-> x, l |-> <<>>, m |-> {}, c |-> NoCt]
AvBOOL(x) == [t |-> "BOOL", s |-> x, l |-> <<>>, m |-> {}, c |-> NoCt]
AvNULL == [t |-> "NULL", s |-> "true", l |-> <<>>, m |-> {}, c |-> NoCt]
AvL(x) == [t |-> "L", s |-> "", l |-> x, m |-> {}, c |-> NoCt]
AvM(x) == [t |-> "M", s |-> "", l |-> <<>>, m |-> x, c |-> NoCt]
\* A binary value holding the ciphertext ct.
AvCt(ct) == [t |-> "B", s |-> "", l |-> <<>>, m |-> {}, c |-> ct]
\* The value a failed conversion stands for (the Go error return).
AvErr == [t |-> "ERR", s |-> "", l |-> <<>>, m |-> {}, c |-> NoCt]

(***************************************************************************)
(* pkg/utils: conversions.                                                 *)
(***************************************************************************)
\* base64.StdEncoding.EncodeToString over bytes named by the text x.
Base64(x) == "b64(" \o x \o ")"

\* json.Marshal of an AttributeValueMember* struct: the struct has the one
\* exported field Value and no JSON tags, so the bytes are the JSON object
\* {"Value": ...}; []byte marshals as base64 text, a list as an array of
\* member objects, a map as an object of member objects.
RECURSIVE AttributeValueToBytes(_)
AttributeValueToBytes(v) ==
    CASE v.t = "S" -> JObj({<<"Value", JStr(v.s)>>})
      [] v.t = "N" -> JObj({<<"Value", JStr(v.s)>>})
      [] v.t = "B" -> JObj({<<"Value", JStr(Base64(v.s))>>})
      [] v.t = "BOOL" -> JObj({<<"Value", JBool(v.s)>>})
      [] v.t = "NULL" -> JObj({<<"Value", JBool(v.s)>>})
      [] v.t = "L" ->
           JObj({<<"Value",
                   JArr([i \in DOMAIN v.l |-> AttributeValueToBytes(v.l[i])])>>})
      [] v.t = "M" ->
           JObj({<<"Value",
                   JObj({<<e[1], AttributeValueToBytes(e[2])>> : e \in v.m})>>})
      [] OTHER -> JNull

\* interfaceToAttributeValue over what json.Unmarshal puts in an
\* interface{}: string, bool, nil, map[string]interface{}, []interface{};
\* a JSON number arrives as float64 and is refused.
RECURSIVE interfaceToAttributeValue(_)
interfaceToAttributeValue(x) ==
    CASE x.j = "str" -> AvS(x.s)
      [] x.j = "bool" -> AvBOOL(x.s)
      [] x.j = "null" -> AvNULL
      [] x.j = "obj" ->
           LET conv == {<<e[1], interfaceToAttributeValue(e[2])>> : e \in x.o}
           IN IF \E e \in conv : e[2].t = "ERR" THEN AvErr ELSE AvM(conv)
      [] x.j = "arr" ->
           LET conv == [i \in DOMAIN x.a |-> interfaceToAttributeValue(x.a[i])]
           IN IF \E i \in DOMAIN conv : conv[i].t = "ERR" THEN AvErr ELSE AvL(conv)
      [] OTHER -> AvErr

\* BytesToAttributeValue: json.Unmarshal into a map[string]interface{} (any
\* JSON that is not an object is an error), then interfaceToAttributeValue.
BytesToAttributeValue(data) ==
    IF data.j = "obj" THEN interfaceToAttributeValue(data) ELSE AvErr

\* HashString: hex SHA-256, taken as collision-free over the inputs.
HashString(input) == "sha256(" \o input \o ")"

\* AttributeValueToString for the member types a key attribute takes here.
AttributeValueToString(v) ==
    CASE v.t \in {"S", "N"} -> v.s
      [] v.t = "B" -> Base64(v.s)
      [] v.t = "BOOL" -> v.s
      [] OTHER -> ""

(***************************************************************************)
(* pkg/delegatedkeys: keysets are named by fresh numbers.  An AEAD         *)
(* ciphertext records the keyset k that made it, the fresh nonce n, the    *)
(* associated data ad and the plaintext pt; only k with the same ad opens  *)
(* it.  A wrapped keyset records the KEK that sealed it.                   *)
(***************************************************************************)
KeyID == "kek"

\* TinkDelegatedKey.Encrypt: AES-GCM under keyset key with a fresh nonce.
Encrypt(key, plaintext, associatedData, nonce) ==
    [k |-> key, n |-> nonce, ad |-> associatedData, pt |-> plaintext]

\* TinkDelegatedKey.Decrypt succeeds only for the keyset and the associated
\* data the ciphertext was made with.
DecryptOk(key, ciphertext, associatedData) ==
    /\ ciphertext.k = key
    /\ ciphertext.k # 0
    /\ ciphertext.ad = associatedData

\* TinkDelegatedKey.WrapKeyset: the keyset sealed under the KEK.
WrapKeyset(key, kek) == [kek |-> kek, key |-> key, good |-> TRUE]

\* UnwrapKeyset: keyset.Read under the KEK; fails on bytes the KEK did not seal.
UnwrapOk(encryptedKeyset, kek) ==
    encryptedKeyset.good /\ encryptedKeyset.kek = kek

\* TinkDelegatedKey.Sign with signing keyset signer.
Sign(signer, data) == [signer |-> signer, msg |-> data]

\* The public keyset bytes GenerateSigningKey exports.
PublicKeyBytes(signer) == [pub |-> signer]

\* VerifySignature(publicKeyBytes, sig, data).
VerifySignature(publicKeyBytes, sig, data) ==
    sig.signer = publicKeyBytes.pub /\ sig.msg = data

\* base64.StdEncoding over the bytes of keysets, signatures and public keys:
\* text that decodes (ok) to the bytes, or text that is not base64.
EncodeToString(bytes) == [ok |-> TRUE, data |-> bytes]
DecodeOk(text) == text.ok
DecodeString(text) == text.data

(***************************************************************************)
(* pkg/provider: the material store.  matStore maps <<name, version>> to   *)
(* the material description stored under that primary key.                 *)
(***************************************************************************)
Versions(ms, materialName) == {k[2] : k \in {x \in DOMAIN ms : x[1] = materialName}}

SetMax(S) == CHOOSE x \in S : \A y \in S : y <= x

\* getLastVersion: Query, descending, Limit 1; 0 when the name has no record.
getLastVersion(ms, materialName) ==
    IF Versions(ms, materialName) = {} THEN 0
    ELSE SetMax(Versions(ms, materialName))

\* StoreNewMaterial: version 1 when there is none, else the last plus one.
NewVersion(currentVersion) ==
    IF currentVersion # 0 THEN currentVersion + 1 ELSE 1

\* The Put's ConditionExpression, "attribute_not_exists(Version) OR
\* Version < :newVersion", which the store evaluates on the item already
\* stored under the new item's primary key <<materialName, newVersion>>.
ConditionHoldsAlways(ms, materialName, newVersion) == TRUE

ConditionHolds(ms, materialName, newVersion) ==
    \/ <<materialName, newVersion>> \notin DOMAIN ms
    \/ \E k \in DOMAIN ms :
          k = <<materialName, newVersion>> /\ k[2] < newVersion

\* The store's Put of one material record.
MatPut(ms, materialName, version, desc) ==
    [k \in DOMAIN ms \cup {<<materialName, version>>} |->
        IF k = <<materialName, version>> THEN desc ELSE ms[k]]

\* The store's delete of one material record.
MatDelete(ms, key) == [k \in DOMAIN ms \ {key} |-> ms[k]]

\* EncryptionMaterials up to the store call: a fresh data keyset wrapped under
\* the KEK, a fresh signing keyset, the signature over the wrapped keyset.
MaterialDescription(fresh) ==
    [ContentEncryptionAlgorithm |-> "AesGcmKey",
     WrappedKeyset |-> EncodeToString(WrapKeyset(fresh, KeyID)),
     Signature |-> EncodeToString(Sign(fresh, WrapKeyset(fresh, KeyID))),
     PublicKey |-> EncodeToString(PublicKeyBytes(fresh))]

\* RetrieveMaterial: the version asked for, the latest when version < 1.
RetrieveVersion(ms, materialName, version) ==
    IF version < 1 THEN getLastVersion(ms, materialName) ELSE version

RetrieveOk(ms, materialName, version) ==
    <<materialName, RetrieveVersion(ms, materialName, version)>> \in DOMAIN ms

RetrieveMaterial(ms, materialName, version) ==
    ms[<<materialName, RetrieveVersion(ms, materialName, version)>>]

\* DecryptionMaterials over the description desc that RetrieveMaterial
\* returned: decode the three fields, verify the signature, and only then
\* unwrap.  The result says whether a key came back (ok), which key, whether
\* the signature was found valid and whether the KEK unwrap was attempted.
NoMaterials == [ok |-> FALSE, key |-> 0, verified |-> FALSE, unwrapTried |-> FALSE]

DecryptionMaterialsUnverified(desc) ==
    IF ~(DecodeOk(desc.WrappedKeyset) /\ DecodeOk(desc.PublicKey)
            /\ DecodeOk(desc.Signature))
    THEN NoMaterials
    ELSE LET encryptedKeyset == DecodeString(desc.WrappedKeyset)
         IN IF UnwrapOk(encryptedKeyset, KeyID)
            THEN [ok |-> TRUE, key |-> encryptedKeyset.key,
                  verified |-> TRUE, unwrapTried |-> TRUE]
            ELSE [ok |-> FALSE, key |-> 0, verified |-> TRUE, unwrapTried |-> TRUE]

DecryptionMaterials(desc) ==
    IF ~(DecodeOk(desc.WrappedKeyset) /\ DecodeOk(desc.PublicKey)
            /\ DecodeOk(desc.Signature))
    THEN NoMaterials
    ELSE LET encryptedKeyset == DecodeString(desc.WrappedKeyset)
             valid == VerifySignature(DecodeString(desc.PublicKey),
                                      DecodeString(desc.Signature), encryptedKeyset)
         IN IF ~valid THEN NoMaterials
            ELSE IF UnwrapOk(encryptedKeyset, KeyID)
            THEN [ok |-> TRUE, key |-> encryptedKeyset.key,
                  verified |-> TRUE, unwrapTried |-> TRUE]
            ELSE [ok |-> FALSE, key |-> 0, verified |-> TRUE, unwrapTried |-> TRUE]

(***************************************************************************)
(* pkg/encrypted: attribute actions, schema lookup, material names and the *)
(* item pipeline.                                                          *)
(***************************************************************************)
TableName == "users"

EncryptActions == {"Encrypt", "EncryptDeterministically"}
AttributeAction == {"DoNothing", "Sign"} \cup EncryptActions

\* AttributeActions.GetAttributeAction: the override when there is one.
GetAttributeAction(aa, attributeName) ==
    IF \E e \in aa.attributeActions : e[1] = attributeName
    THEN (CHOOSE e \in aa.attributeActions : e[1] = attributeName)[2]
    ELSE aa.defaultAction

\* TableInfo: the HASH and RANGE attribute names of DescribeTable's KeySchema.
TableInfo(ks) ==
    LET H == {i \in DOMAIN ks : ks[i].KeyType = "HASH"}
        R == {i \in DOMAIN ks : ks[i].KeyType = "RANGE"}
    IN [Table |-> TableName,
        PartitionKey |-> IF H = {} THEN "" ELSE ks[SetMax(H)].AttributeName,
        SortKey |-> IF R = {} THEN "" ELSE ks[SetMax(R)].AttributeName]

TableInfoUnchecked(ks) == TRUE
TableInfoOk(ks) == TableInfo(ks).PartitionKey # ""

IsKeyAttr(pkInfo, name) == name = pkInfo.PartitionKey \/ name = pkInfo.SortKey

\* ConstructMaterialName: hash of table-partition[-sort].
RawMaterialNameOfItem(item, pkInfo) ==
    pkInfo.Table \o "-" \o AttributeValueToString(item[pkInfo.PartitionKey])
        \o (IF pkInfo.SortKey # ""
            THEN "-" \o AttributeValueToString(item[pkInfo.SortKey]) ELSE "")
        \o (IF "A" \in DOMAIN item THEN "-" \o AttributeValueToString(item["A"])
            ELSE "")

RawMaterialName(item, pkInfo) ==
    LET partitionKeyValue == AttributeValueToString(item[pkInfo.PartitionKey])
        sortKeyValue == IF pkInfo.SortKey # ""
                        THEN AttributeValueToString(item[pkInfo.SortKey])
                        ELSE ""
    IN pkInfo.Table \o "-" \o partitionKeyValue
         \o (IF sortKeyValue # "" THEN "-" \o sortKeyValue ELSE "")

ConstructMaterialName(item, pkInfo) == HashString(RawMaterialName(item, pkInfo))

\* encryptItem's loop over the attributes: key attributes are copied, an
\* attribute with an encrypting action becomes a binary ciphertext bound to
\* its name, DoNothing copies, and the switch has no case for Sign.
EncryptKeeps(item, pkInfo, aa) ==
    {k \in DOMAIN item :
        \/ IsKeyAttr(pkInfo, k)
        \/ GetAttributeAction(aa, k) \in EncryptActions \cup {"DoNothing"}}

\* The associated data of an attribute's encryption and decryption: the
\* attribute's name as bytes.
AssociatedDataNone(attributeName) == ""

AssociatedData(attributeName) == attributeName

EncryptAttr(k, value, key, nonce) ==
    AvCt(Encrypt(key, AttributeValueToBytes(value), AssociatedData(k), nonce))

encryptItemAll(item, pkInfo, aa, key, nonce) ==
    [k \in DOMAIN item |->
        IF GetAttributeAction(aa, k) \in EncryptActions
        THEN EncryptAttr(k, item[k], key, nonce)
        ELSE item[k]]

encryptItem(item, pkInfo, aa, key, nonce) ==
    [k \in EncryptKeeps(item, pkInfo, aa) |->
        IF IsKeyAttr(pkInfo, k) THEN item[k]
        ELSE IF GetAttributeAction(aa, k) \in EncryptActions
        THEN EncryptAttr(k, item[k], key, nonce)
        ELSE item[k]]

\* decryptItem's loop: key attributes and non-binary values are copied; a
\* binary value under an encrypting action is decrypted with its name as
\* associated data and converted back; DoNothing copies; no case for Sign.
DecryptKeeps(item, pkInfo, aa) ==
    {k \in DOMAIN item :
        \/ IsKeyAttr(pkInfo, k)
        \/ item[k].t # "B"
        \/ GetAttributeAction(aa, k) \in EncryptActions \cup {"DoNothing"}}

IsDecrypted(item, pkInfo, aa, k) ==
    /\ ~IsKeyAttr(pkInfo, k)
    /\ item[k].t = "B"
    /\ GetAttributeAction(aa, k) \in EncryptActions

decryptFails(item, pkInfo, aa, key) ==
    \E k \in DOMAIN item :
        /\ IsDecrypted(item, pkInfo, aa, k)
        /\ \/ ~DecryptOk(key, item[k].c, AssociatedData(k))
           \/ BytesToAttributeValue(item[k].c.pt).t = "ERR"

decryptItem(item, pkInfo, aa, key) ==
    [k \in DecryptKeeps(item, pkInfo, aa) |->
        IF IsDecrypted(item, pkInfo, aa, k)
        THEN BytesToAttributeValue(item[k].c.pt)
        ELSE item[k]]

(***************************************************************************)
(* The store's user table: a function from primary key to the stored item. *)
(***************************************************************************)
\* The primary key the store files an item under.
StoreKey(item, ks) ==
    LET info == TableInfo(ks)
    IN <<item[info.PartitionKey].s,
         IF info.SortKey # "" THEN item[info.SortKey].s ELSE "">>

TablePut(tb, key, item) ==
    [k \in DOMAIN tb \cup {key} |-> IF k = key THEN item ELSE tb[k]]

TableDelete(tb, key) == [k \in DOMAIN tb \ {key} |-> tb[k]]

(***************************************************************************)
(* pkg/serde: the byte codec of attribute values.  A byte is a number in   *)
(* 0..255, a string its sequence of bytes.  A value is a record of one     *)
(* shape:                                                                  *)
(*   t   "B" "N" "S" "BOOL" "NULL" "L" "M" "BS" "NS" "SS", "ERR" for none  *)
(*   b   the bytes of a B, N or S value                                    *)
(*   bv  the flag of a BOOL value                                          *)
(*   l   the members of an L value                                         *)
(*   m   the <<key, value>> entries of an M value, in iteration order      *)
(*   ss  the members of a BS, NS or SS value, in slice order               *)
(***************************************************************************)
SvNone == [t |-> "ERR", b |-> <<>>, bv |-> FALSE, l |-> <<>>, m |-> <<>>, ss |-> <<>>]
SvB(x) == [SvNone EXCEPT !.t = "B", !.b = x]
SvN(x) == [SvNone EXCEPT !.t = "N", !.b = x]
SvS(x) == [SvNone EXCEPT !.t = "S", !.b = x]
SvBOOL(x) == [SvNone EXCEPT !.t = "BOOL", !.bv = x]
SvNULL == [SvNone EXCEPT !.t = "NULL"]
SvL(x) == [SvNone EXCEPT !.t = "L", !.l = x]
SvM(x) == [SvNone EXCEPT !.t = "M", !.m = x]
SvBS(x) == [SvNone EXCEPT !.t = "BS", !.ss = x]
SvNS(x) == [SvNone EXCEPT !.t = "NS", !.ss = x]
SvSS(x) == [SvNone EXCEPT !.t = "SS", !.ss = x]

tagBinary == 98
tagNumber == 110
tagString == 115
tagBoolean == 63
tagNull == 0
tagList == 76
tagMap == 77
tagBinarySet == 66
tagNumberSet == 78
tagStringSet == 83

Tags ==
    {tagBinary, tagNumber, tagString, tagBoolean, tagNull, tagList, tagMap,
     tagBinarySet, tagNumberSet, tagStringSet}

\* encodeLength: the length as four bytes, big-endian.
encodeLength(length) ==
    <<(length \div 16777216) % 256, (length \div 65536) % 256,
      (length \div 256) % 256, length % 256>>

\* encodeValue: the length, then the bytes.
encodeValue(value) == encodeLength(Len(value)) \o value

\* bytes.Compare(a, b) < 0, which is also Go's < on strings.
RECURSIVE BytesLess(_, _)
BytesLess(a, b) ==
    IF b = <<>> THEN FALSE
    ELSE IF a = <<>> THEN TRUE
    ELSE IF Head(a) # Head(b) THEN Head(a) < Head(b)
    ELSE BytesLess(Tail(a), Tail(b))

\* sort.Slice over byte strings: ascending; equal members are identical, so
\* the order among them does not show.
RECURSIVE InsertBytes(_, _)
InsertBytes(x, sorted) ==
    IF sorted = <<>> THEN <<x>>
    ELSE IF BytesLess(Head(sorted), x) THEN <<Head(sorted)>> \o InsertBytes(x, Tail(sorted))
    ELSE <<x>> \o sorted

UnsortedBytes(members) == members

RECURSIVE SortBytes(_)
SortBytes(members) ==
    IF members = <<>> THEN <<>>
    ELSE InsertBytes(Head(members), SortBytes(Tail(members)))

\* sortedKeyMap: the entries of a map in ascending order of their keys.
RECURSIVE InsertEntry(_, _)
InsertEntry(x, sorted) ==
    IF sorted = <<>> THEN <<x>>
    ELSE IF BytesLess(Head(sorted)[1], x[1]) THEN <<Head(sorted)>> \o InsertEntry(x, Tail(sorted))
    ELSE <<x>> \o sorted

RECURSIVE sortedKeyMap(_)
sortedKeyMap(m) ==
    IF m = <<>> THEN <<>>
    ELSE InsertEntry(Head(m), sortedKeyMap(Tail(m)))

(***************************************************************************)
(* transformNumberValue: strconv.ParseFloat(value, 64), a panic when that  *)
(* fails, else strconv.FormatFloat(num, 'f', -1, 64).  The float is kept   *)
(* as sign, significant decimal digits d without leading or trailing       *)
(* zeros, and the position e of the decimal point: 0.d * 10^e.  That is    *)
(* exact for texts of at most 15 significant digits, which is all the      *)
(* model feeds it; the rounding of longer texts is not modelled.           *)
(***************************************************************************)
IsDigit(c) == c >= 48 /\ c <= 57

\* The number of digits of s from index i on, up to the first non-digit.
RECURSIVE DigitRun(_, _)
DigitRun(s, i) ==
    IF i > Len(s) THEN 0
    ELSE IF IsDigit(s[i]) THEN 1 + DigitRun(s, i + 1) ELSE 0

\* The value of a run of digits; runs longer than four digits count as 9999.
RECURSIVE DigitsValue(_)
DigitsValue(ds) ==
    IF ds = <<>> THEN 0
    ELSE IF Len(ds) > 4 THEN 9999
    ELSE (ds[Len(ds)] - 48) + 10 * DigitsValue(SubSeq(ds, 1, Len(ds) - 1))

RECURSIVE StripLeadingZeros(_)
StripLeadingZeros(ds) ==
    IF ds # <<>> /\ Head(ds) = 48 THEN StripLeadingZeros(Tail(ds)) ELSE ds

RECURSIVE StripTrailingZeros(_)
StripTrailingZeros(ds) ==
    IF ds # <<>> /\ ds[Len(ds)] = 48
    THEN StripTrailingZeros(SubSeq(ds, 1, Len(ds) - 1)) ELSE ds

Zeros(n) == [i \in 1..n |-> 48]

\* The digits of the least decimal that rounds above the largest float64,
\* 1.7976931348623158e308.
MaxFloatDigits == <<49, 55, 57, 55, 54, 57, 51, 49, 51, 52, 56, 54, 50, 51, 49, 53, 56>>

NoFloat == [ok |-> FALSE, neg |-> FALSE, d |-> <<>>, e |-> 0]

\* strconv.ParseFloat on decimal text: [+-] digits [. digits] [eE [+-] digits].
\* It fails on text that is not a number and on a magnitude above the
\* largest float64; a magnitude below the smallest becomes zero.
ParseFloat(s) ==
    LET signed == s # <<>> /\ Head(s) \in {43, 45}
        neg == s # <<>> /\ Head(s) = 45
        i0 == IF signed THEN 2 ELSE 1
        ni == DigitRun(s, i0)
        i1 == i0 + ni
        dot == i1 <= Len(s) /\ s[i1] = 46
        nf == IF dot THEN DigitRun(s, i1 + 1) ELSE 0
        i2 == IF dot THEN i1 + 1 + nf ELSE i1
        hasE == i2 <= Len(s) /\ s[i2] \in {101, 69}
        esigned == hasE /\ i2 + 1 <= Len(s) /\ s[i2 + 1] \in {43, 45}
        eneg == esigned /\ s[i2 + 1] = 45
        i3 == IF esigned THEN i2 + 2 ELSE i2 + 1
        ne == IF hasE THEN DigitRun(s, i3) ELSE 0
        iend == IF hasE THEN i3 + ne ELSE i2
        expv == IF hasE THEN DigitsValue(SubSeq(s, i3, i3 + ne - 1)) ELSE 0
        exp == IF eneg THEN 0 - expv ELSE expv
        all == SubSeq(s, i0, i0 + ni - 1) \o (IF dot THEN SubSeq(s, i1 + 1, i1 + nf) ELSE <<>>)
        lead == StripLeadingZeros(all)
        d == StripTrailingZeros(lead)
        e == ni + exp - (Len(all) - Len(lead))
    IN IF \/ ni + nf = 0
          \/ hasE /\ ne = 0
          \/ iend # Len(s) + 1
       THEN NoFloat
       ELSE IF d = <<>> \/ e < 0 - 323
       THEN [ok |-> TRUE, neg |-> neg, d |-> <<>>, e |-> 0]
       ELSE IF e > 309 \/ (e = 309 /\ ~BytesLess(d, MaxFloatDigits))
       THEN NoFloat
       ELSE [ok |-> TRUE, neg |-> neg, d |-> d, e |-> e]

\* strconv.FormatFloat(num, 'f', -1, 64): the digits with the point in
\* place, no exponent.
FormatFloat(f) ==
    (IF f.neg THEN <<45>> ELSE <<>>) \o
    (IF f.d = <<>> THEN <<48>>
     ELSE IF f.e <= 0 THEN <<48, 46>> \o Zeros(0 - f.e) \o f.d
     ELSE IF f.e >= Len(f.d) THEN f.d \o Zeros(f.e - Len(f.d))
     ELSE SubSeq(f.d, 1, f.e) \o <<46>> \o SubSeq(f.d, f.e + 1, Len(f.d)))

transformNumberValueOk(value) == ParseFloat(value).ok

transformNumberValue(value) == FormatFloat(ParseFloat(value))

(***************************************************************************)
(* Serializer.  A result says how the call ended (st: "ok" with bytes,     *)
(* "err" with an error returned, "panic" with the goroutine aborted).      *)
(***************************************************************************)
SerOk(bytes) == [st |-> "ok", bytes |-> bytes]
SerErr == [st |-> "err", bytes |-> <<>>]
SerPanic == [st |-> "panic", bytes |-> <<>>]

serializeString(value) == <<0, tagString>> \o encodeValue(value)

\* serializeSet: the count, the transformed members sorted, each as a value.
RECURSIVE EncodeValues(_)
EncodeValues(members) ==
    IF members = <<>> THEN <<>>
    ELSE encodeValue(Head(members)) \o EncodeValues(Tail(members))

serializeSet(tag, members) ==
    <<0, tag>> \o encodeLength(Len(members)) \o EncodeValues(SortBytes(members))

RECURSIVE SerializeAttribute(_)
RECURSIVE SerializeMembers(_)
RECURSIVE SerializeEntries(_)

\* serializeList's loop: a member that cannot be serialized is a panic.
SerializeMembers(members) ==
    IF members = <<>> THEN SerOk(<<>>)
    ELSE LET h == SerializeAttribute(Head(members))
             r == SerializeMembers(Tail(members))
         IN IF h.st # "ok" \/ r.st # "ok" THEN SerPanic
            ELSE SerOk(h.bytes \o r.bytes)

\* serializeMap's loop over the sorted entries.
SerializeEntries(entries) ==
    IF entries = <<>> THEN SerOk(<<>>)
    ELSE LET h == SerializeAttribute(Head(entries)[2])
             r == SerializeEntries(Tail(entries))
         IN IF h.st # "ok" \/ r.st # "ok" THEN SerPanic
            ELSE SerOk(serializeString(Head(entries)[1]) \o h.bytes \o r.bytes)

SerializeAttribute(v) ==
    CASE v.t = "B" -> SerOk(<<0, tagBinary>> \o encodeValue(v.b))
      [] v.t = "N" ->
            IF transformNumberValueOk(v.b)
            THEN SerOk(<<0, tagNumber>> \o encodeValue(transformNumberValue(v.b)))
            ELSE SerPanic
      [] v.t = "S" -> SerOk(serializeString(v.b))
      [] v.t = "BOOL" -> SerOk(<<0, tagBoolean, IF v.bv THEN 1 ELSE 0>>)
      [] v.t = "NULL" -> SerOk(<<0, tagNull>>)
      [] v.t = "L" ->
            LET r == SerializeMembers(v.l)
            IN IF r.st # "ok" THEN SerPanic
               ELSE SerOk(<<0, tagList>> \o encodeLength(Len(v.l)) \o r.bytes)
      [] v.t = "M" ->
            LET r == SerializeEntries(sortedKeyMap(v.m))
            IN IF r.st # "ok" THEN SerPanic
               ELSE SerOk(<<0, tagMap>> \o encodeLength(Len(v.m)) \o r.bytes)
      [] v.t = "BS" -> SerOk(serializeSet(tagBinarySet, v.ss))
      [] v.t = "NS" ->
            IF \A i \in DOMAIN v.ss : transformNumberValueOk(v.ss[i])
            THEN SerOk(serializeSet(tagNumberSet,
                                    [i \in DOMAIN v.ss |-> transformNumberValue(v.ss[i])]))
            ELSE SerPanic
      [] v.t = "SS" -> SerOk(serializeSet(tagStringSet, v.ss))
      [] OTHER -> SerErr

(***************************************************************************)
(* Deserializer.  A read returns how it ended (st: "ok", "err" with an     *)
(* error returned, "abort" with the process out of memory), what it read   *)
(* and the reader's next position.                                         *)
(***************************************************************************)
DesErr == [st |-> "err", v |-> SvNone, n |-> 0, bs |-> <<>>, pos |-> 0]
DesAbort == [DesErr EXCEPT !.st = "abort"]
DesValue(v, pos) == [DesErr EXCEPT !.st = "ok", !.v = v, !.pos = pos]

\* decodeLength: four bytes, big-endian, as a uint32.  Lengths of 2^31 and
\* more are kept as 2^31 - 1.
decodeLength(data, pos) ==
    IF pos + 3 > Len(data) THEN DesErr
    ELSE [DesErr EXCEPT
            !.st = "ok", !.pos = pos + 4,
            !.n = IF data[pos] >= 128 THEN 2147483647
                  ELSE data[pos] * 16777216 + data[pos + 1] * 65536
                       + data[pos + 2] * 256 + data[pos + 3]]

\* decodeValue: a length, then that many bytes.
decodeValue(data, pos) ==
    LET len == decodeLength(data, pos)
    IN IF len.st # "ok" THEN DesErr
       ELSE IF len.n > Len(data) - (len.pos - 1) THEN DesErr
       ELSE [DesErr EXCEPT !.st = "ok", !.pos = len.pos + len.n,
                           !.bs = SubSeq(data, len.pos, len.pos + len.n - 1)]

\* make(..., memberCount) for the members of a list, map or set: whether an
\* allocation of 2^31 and more members (32 GiB and more) succeeds is up to
\* the machine; oom says that it does not.
AllocFails(memberCount, oom) == oom /\ memberCount >= 2147483647

\* members[key] = value.
MapAssign(m, key, value) ==
    IF \E i \in DOMAIN m : m[i][1] = key
    THEN [i \in DOMAIN m |-> IF m[i][1] = key THEN <<key, value>> ELSE m[i]]
    ELSE Append(m, <<key, value>>)

RECURSIVE deserialize(_, _, _)
RECURSIVE deserializeListMembers(_, _, _, _, _)
RECURSIVE deserializeMapMembers(_, _, _, _, _)
RECURSIVE deserializeSetMembers(_, _, _, _)

\* decodeTag: the reserved byte, which must be null, then the tag byte.
decodeTag(data, pos) ==
    IF pos > Len(data) THEN DesErr
    ELSE IF data[pos] # 0 THEN DesErr
    ELSE IF pos + 1 > Len(data) THEN DesErr
    ELSE [DesErr EXCEPT !.st = "ok", !.n = data[pos + 1], !.pos = pos + 2]

\* decodeByte.
decodeByte(data, pos) ==
    IF pos > Len(data) THEN DesErr
    ELSE [DesErr EXCEPT !.st = "ok", !.n = data[pos], !.pos = pos + 1]

\* The loop of deserializeList.
deserializeListMembers(data, pos, memberCount, members, oom) ==
    IF memberCount = 0 THEN DesValue(SvL(members), pos)
    ELSE LET member == deserialize(data, pos, oom)
         IN IF member.st # "ok" THEN [DesErr EXCEPT !.st = member.st]
            ELSE deserializeListMembers(data, member.pos, memberCount - 1,
                                        Append(members, member.v), oom)

\* The loop of deserializeMap.
deserializeMapMembers(data, pos, memberCount, members, oom) ==
    IF memberCount = 0 THEN DesValue(SvM(members), pos)
    ELSE LET key == deserialize(data, pos, oom)
         IN IF key.st # "ok" THEN [DesErr EXCEPT !.st = key.st]
            ELSE LET value == deserialize(data, key.pos, oom)
                 IN IF value.st # "ok" THEN [DesErr EXCEPT !.st = value.st]
                    ELSE IF key.v.t # "S" THEN DesErr
                    ELSE deserializeMapMembers(data, value.pos, memberCount - 1,
                                               MapAssign(members, key.v.b, value.v), oom)

\* The loop of deserializeBinarySet, deserializeNumberSet, deserializeStringSet.
deserializeSetMembers(data, pos, memberCount, members) ==
    IF memberCount = 0 THEN [DesErr EXCEPT !.st = "ok", !.bs = members, !.pos = pos]
    ELSE LET member == decodeValue(data, pos)
         IN IF member.st # "ok" THEN DesErr
            ELSE deserializeSetMembers(data, member.pos, memberCount - 1,
                                       Append(members, member.bs))

deserializeList(data, pos, oom) ==
    LET memberCount == decodeLength(data, pos)
    IN IF memberCount.st # "ok" THEN DesErr
       ELSE IF AllocFails(memberCount.n, oom) THEN DesAbort
       ELSE deserializeListMembers(data, memberCount.pos, memberCount.n, <<>>, oom)

deserializeMap(data, pos, oom) ==
    LET memberCount == decodeLength(data, pos)
    IN IF memberCount.st # "ok" THEN DesErr
       ELSE IF AllocFails(memberCount.n, oom) THEN DesAbort
       ELSE deserializeMapMembers(data, memberCount.pos, memberCount.n, <<>>, oom)

deserializeSet(t, data, pos, oom) ==
    LET memberCount == decodeLength(data, pos)
    IN IF memberCount.st # "ok" THEN DesErr
       ELSE IF AllocFails(memberCount.n, oom) THEN DesAbort
       ELSE LET members == deserializeSetMembers(data, memberCount.pos, memberCount.n, <<>>)
            IN IF members.st # "ok" THEN DesErr
               ELSE DesValue([SvNone EXCEPT !.t = t, !.ss = SortBytes(members.bs)],
                             members.pos)

deserializeScalar(t, data, pos) ==
    LET value == decodeValue(data, pos)
    IN IF value.st # "ok" THEN DesErr
       ELSE DesValue([SvNone EXCEPT !.t = t, !.b = value.bs], value.pos)

deserializeBoolean(data, pos) ==
    LET value == decodeByte(data, pos)
    IN IF value.st # "ok" THEN DesErr
       ELSE DesValue(SvBOOL(value.n # 0), value.pos)

\* deserialize: the tag, deserializeFunction's switch, the function.
deserialize(data, pos, oom) ==
    LET tag == decodeTag(data, pos)
    IN IF tag.st # "ok" THEN DesErr
       ELSE CASE tag.n = tagBinary -> deserializeScalar("B", data, tag.pos)
              [] tag.n = tagNumber -> deserializeScalar("N", data, tag.pos)
              [] tag.n = tagString -> deserializeScalar("S", data, tag.pos)
              [] tag.n = tagBoolean -> deserializeBoolean(data, tag.pos)
              [] tag.n = tagNull -> DesValue(SvNULL, tag.pos)
              [] tag.n = tagList -> deserializeList(data, tag.pos, oom)
              [] tag.n = tagMap -> deserializeMap(data, tag.pos, oom)
              [] tag.n = tagBinarySet -> deserializeSet("BS", data, tag.pos, oom)
              [] tag.n = tagNumberSet -> deserializeSet("NS", data, tag.pos, oom)
              [] tag.n = tagStringSet -> deserializeSet("SS", data, tag.pos, oom)
              [] OTHER -> DesErr

DeserializeAttribute(data, oom) ==
    IF Len(data) = 0 THEN DesErr ELSE deserialize(data, 1, oom)

(***************************************************************************)
(* State.                                                                  *)
(***************************************************************************)
VARIABLES
    keySchema,        \* the KeySchema DescribeTable reports for the user table
    actions,          \* the client's AttributeActions
    probe,            \* the attribute value the callers' items carry under A
    table,            \* the user table in the store
    matStore,         \* the material table in the store
    PrimaryKeyCache,  \* EncryptedClient.PrimaryKeyCache
    fresh,            \* the next unused keyset / nonce number
    steps,            \* operations started so far
    obs,              \* PipeSpec: what the last operation was given and returned
    plain,            \* PipeSpec: per stored key, the item the caller put
    signedAt,         \* PipeSpec: per material record, its WrappedKeyset as signed
    pc,               \* Spec: per thread, the store call it is about to make
    op,               \* Spec: per thread, the locals of its running operation
    last,             \* Spec: per thread, what its last finished operation returned
    fails,            \* Spec: store calls failed so far
    nops,             \* Spec: operations started so far
    seq,              \* Spec: history of the sequential run of one logical item
    race,             \* Spec: history of two StoreNewMaterial calls racing
    serde,            \* SerdeSpec: the codec's last call and what it returned
    rwlock,           \* CacheSpec: EncryptedClient.lock, its writer and its readers
    cpc,              \* CacheSpec: per thread, its position in getPrimaryKeyInfo
    cop,              \* CacheSpec: per thread, the locals of its running call
    cret,             \* CacheSpec: per thread, what its last finished call returned
    cstat,            \* CacheSpec: calls started, DescribeTable and TableInfo successes
    ret,              \* OpsSpec: what the last operation was given, sent and returned
    pager,            \* PagerSpec: the EncryptedPaginator and its running call
    dk                \* KeySpec: the delegated keys and the calls made on them

pipeVars == <<steps, obs, plain, signedAt>>
specVars == <<pc, op, last, fails, nops, seq, race>>
clientVars == <<keySchema, actions, probe, table, matStore, fresh>>
cacheVars == <<rwlock, cpc, cop, cret, cstat>>
opsVars == <<ret, pager>>
keyVars == <<dk>>
auxVars == <<serde, cacheVars, opsVars, keyVars>>

vars == <<keySchema, actions, probe, table, matStore, PrimaryKeyCache, fresh,
          steps, obs, plain, signedAt, pc, op, last, fails, nops, seq, race, serde,
          rwlock, cpc, cop, cret, cstat, ret, pager, dk>>

\* Bounds of the model.
MaxPipeSteps == 3
MaxOps == 3
MaxFails == 1

Threads == {1, 2}

(***************************************************************************)
(* The inputs.                                                             *)
(***************************************************************************)
Schemas ==
    {<<[AttributeName |-> "PK", KeyType |-> "HASH"]>>,
     <<[AttributeName |-> "PK", KeyType |-> "HASH"],
       [AttributeName |-> "SK", KeyType |-> "RANGE"]>>}

PKVals == {"a", "b"}
SKVal == "c"

Values ==
    {AvS("x"), AvB("q"), AvM({<<"k", AvN("1")>>})}

Configs ==
    {[defaultAction |-> d, attributeActions |-> o] :
        d \in {"Encrypt", "DoNothing", "Sign"},
        o \in {{}} \cup {{<<"A", a>>} : a \in {"EncryptDeterministically", "DoNothing"}}}

HasRange(ks) == TableInfo(ks).SortKey # ""

\* The primary key of the user table as a caller writes it.
KeyItem(pk, ks) ==
    [n \in {"PK"} \cup (IF HasRange(ks) THEN {"SK"} ELSE {}) |->
        IF n = "PK" THEN AvS(pk) ELSE AvS(SKVal)]

\* A caller's item: the key, the probe value under A, and optionally B.
Item(pk, v, withB, ks) ==
    [n \in DOMAIN KeyItem(pk, ks) \cup {"A"} \cup (IF withB THEN {"B"} ELSE {}) |->
        IF n \in DOMAIN KeyItem(pk, ks) THEN KeyItem(pk, ks)[n]
        ELSE IF n = "A" THEN v ELSE AvS("x")]

Items == {Item(pk, probe, b, keySchema) : pk \in PKVals, b \in BOOLEAN}
KeyItems == {KeyItem(pk, keySchema) : pk \in PKVals}

NoItem == [n \in {} |-> AvErr]

(***************************************************************************)
(* getPrimaryKeyInfo: the cached record, else TableInfo and an insert.     *)
(***************************************************************************)
CacheInsert(cache, tableName, pkInfo) ==
    [t \in DOMAIN cache \cup {tableName} |->
        IF t = tableName THEN pkInfo ELSE cache[t]]

getPrimaryKeyInfoOk(cache, ks) == TableName \in DOMAIN cache \/ TableInfoOk(ks)

getPrimaryKeyInfo(cache, ks) ==
    IF TableName \in DOMAIN cache THEN cache[TableName] ELSE TableInfo(ks)

CacheAfter(cache, ks) ==
    IF TableName \in DOMAIN cache \/ ~TableInfoOk(ks) THEN cache
    ELSE CacheInsert(cache, TableName, TableInfo(ks))

(***************************************************************************)
(* StoreNewMaterial as one store round: read the last version, then the    *)
(* conditional Put of the next.                                            *)
(***************************************************************************)
StoreNewMaterialOk(ms, materialName) ==
    ConditionHolds(ms, materialName, NewVersion(getLastVersion(ms, materialName)))

StoreNewMaterial(ms, materialName, desc) ==
    IF StoreNewMaterialOk(ms, materialName)
    THEN MatPut(ms, materialName, NewVersion(getLastVersion(ms, materialName)), desc)
    ELSE ms

\* BatchWriteItem's loop: every put request's item is replaced by its
\* encrypted form, each with materials of its own; delete requests pass.
\* The loop stops at the first put whose materials cannot be stored.
PutReq(item) == [put |-> TRUE, item |-> item]
DelReq(key) == [put |-> FALSE, item |-> key]

EncryptRequestsNone(reqs, ms, fr, pkInfo, aa) ==
    [ok |-> TRUE, out |-> reqs, ms |-> ms, fr |-> fr]

RECURSIVE EncryptRequests(_, _, _, _, _)
EncryptRequests(reqs, ms, fr, pkInfo, aa) ==
    IF reqs = <<>> THEN [ok |-> TRUE, out |-> <<>>, ms |-> ms, fr |-> fr]
    ELSE LET r == Head(reqs)
         IN IF ~r.put
            THEN LET rest == EncryptRequests(Tail(reqs), ms, fr, pkInfo, aa)
                 IN [rest EXCEPT !.out = <<r>> \o rest.out]
            ELSE LET name == ConstructMaterialName(r.item, pkInfo)
                 IN IF ~StoreNewMaterialOk(ms, name)
                    THEN [ok |-> FALSE, out |-> <<>>, ms |-> ms, fr |-> fr + 1]
                    ELSE LET rest == EncryptRequests(Tail(reqs),
                                        StoreNewMaterial(ms, name, MaterialDescription(fr)),
                                        fr + 1, pkInfo, aa)
                         IN [rest EXCEPT !.out =
                                <<PutReq(encryptItem(r.item, pkInfo, aa, fr, fr))>>
                                    \o rest.out]

\* The store's BatchWriteItem with every request processed.
RECURSIVE ApplyRequests(_, _, _)
ApplyRequests(tb, reqs, ks) ==
    IF reqs = <<>> THEN tb
    ELSE LET r == Head(reqs)
         IN ApplyRequests(IF r.put THEN TablePut(tb, StoreKey(r.item, ks), r.item)
                          ELSE TableDelete(tb, StoreKey(r.item, ks)),
                          Tail(reqs), ks)

(***************************************************************************)
(* The per-thread state of Spec and its histories, at rest.                *)
(***************************************************************************)
NoOp ==
    [kind |-> "none", reqs |-> <<>>, i |-> 0, keyItem |-> NoItem, name |-> "",
     readVer |-> 0, key |-> 0, pending |-> <<>>, itemDeleted |-> FALSE,
     matTouched |-> FALSE]

NoLast ==
    [kind |-> "none", ok |-> FALSE, failedAt |-> "", removed |-> {},
     left |-> {}, itemDeleted |-> FALSE, matTouched |-> FALSE]

NoRace ==
    [open |-> FALSE, done |-> FALSE, key |-> <<"", 0>>,
     desc |-> MaterialDescription(0), intact |-> TRUE, firstOk |-> FALSE,
     secondOk |-> FALSE, returned |-> FALSE, kept |-> FALSE]

NoSeq == [mode |-> "puts", pk |-> "", k |-> 0]

SpecVarsInit ==
    /\ pc = [t \in Threads |-> "idle"]
    /\ op = [t \in Threads |-> NoOp]
    /\ last = [t \in Threads |-> NoLast]
    /\ fails = 0
    /\ nops = 0
    /\ seq = NoSeq
    /\ race = [t \in Threads |-> NoRace]

\* SerdeSpec's variable before any call.
SerdeIdle ==
    [phase |-> "idle", v |-> SvNone, out |-> SerErr, data |-> <<>>, oom |-> FALSE,
     res |-> DesErr, roundTrip |-> FALSE]

\* CacheSpec's threads, tables and variables before any call.
CacheThreads == {1, 2, 3}
CacheTables == {"users", "orders"}

NoDescribe == [err |-> TRUE, ks |-> <<>>]

NoCop ==
    [tableName |-> "", exists |-> FALSE, pkInfo |-> TableInfo(<<>>),
     attempted |-> FALSE, outcome |-> NoDescribe]

NoCret ==
    [kind |-> "none", tableName |-> "", pkInfo |-> TableInfo(<<>>), via |-> "",
     attempted |-> FALSE, outcome |-> NoDescribe]

CacheVarsInit ==
    /\ rwlock = [w |-> 0, r |-> {}]
    /\ cpc = [t \in CacheThreads |-> "idle"]
    /\ cop = [t \in CacheThreads |-> NoCop]
    /\ cret = [t \in CacheThreads |-> NoCret]
    /\ cstat = [calls |-> 0,
                describes |-> [n \in CacheTables |-> 0],
                infos |-> [n \in CacheTables |-> 0]]

\* OpsSpec's record of an operation, before any.
NoStoreOutput == [err |-> FALSE, UnprocessedItems |-> <<>>]

NoRet ==
    [kind |-> "none", at |-> 0, ok |-> FALSE, found |-> FALSE, raw |-> <<>>, items |-> <<>>,
     calls |-> <<>>, reqs |-> <<>>, encrypted |-> FALSE, submitted |-> FALSE,
     sent |-> <<>>, storeOutput |-> NoStoreOutput, output |-> NoStoreOutput]

\* A new EncryptedPaginator, no call running.
NoKey == <<"", "">>

NoPager ==
    [NextToken |-> NoKey, pc |-> "idle", kind |-> "", pk |-> "", given |-> NoKey,
     ExclusiveStartKey |-> NoKey, LastEvaluatedKey |-> NoKey, lastPage |-> FALSE,
     log |-> <<>>, returned |-> "none"]

\* KeySpec's threads and keys: one TinkDelegatedKey over a keyset of each
\* kind, no primitive made yet, no call running.
KeyThreads == {1, 2}
KeyKinds == {"AesGcmKey", "AesSivKey", "EcdsaPrivateKey"}

NoOnce == [done |-> FALSE, m |-> 0]

NewTinkDelegatedKey(kh) ==
    [keysetHandle |-> kh, aeadPrimitive |-> "nil", signerPrimitive |-> "nil",
     aeadOnce |-> NoOnce, signerOnce |-> NoOnce]

NoKop == [method |-> "", key |-> "", err |-> FALSE]

NoKret ==
    [op |-> "none", materials |-> "", key |-> "", signer |-> "", outcome |-> "",
     first |-> FALSE]

NoKeys ==
    [key |-> [k \in KeyKinds |-> NewTinkDelegatedKey(k)],
     kpc |-> [t \in KeyThreads |-> "idle"],
     kop |-> [t \in KeyThreads |-> NoKop],
     kret |-> [t \in KeyThreads |-> NoKret],
     n |-> 0]

AuxVarsInit ==
    /\ serde = SerdeIdle
    /\ CacheVarsInit
    /\ ret = NoRet
    /\ pager = NoPager
    /\ dk = NoKeys

(***************************************************************************)
(* PipeSpec: one caller, atomic handlers, reliable store, an adversary.    *)
(***************************************************************************)
NoObs ==
    [kind |-> "none", key |-> <<"", "">>, handed |-> {}, ok |-> FALSE,
     got |-> NoItem, orig |-> NoItem, afterPut |-> FALSE, name |-> "",
     stored |-> NoItem, dmCalled |-> FALSE, dm |-> NoMaterials]

PipeInit ==
    /\ keySchema \in Schemas
    /\ actions \in Configs
    /\ probe \in Values
    /\ table = [k \in {} |-> NoItem]
    /\ matStore = [k \in {} |-> MaterialDescription(0)]
    /\ PrimaryKeyCache = [t \in {} |-> TableInfo(<<>>)]
    /\ fresh = 1
    /\ steps = 0
    /\ obs = NoObs
    /\ plain = [k \in {} |-> NoItem]
    /\ signedAt = [k \in {} |-> EncodeToString(WrapKeyset(0, KeyID))]
    /\ SpecVarsInit
    /\ AuxVarsInit

\* History: the WrappedKeyset text of every material record as it was signed
\* and written.
Signed(sg, ms) ==
    [k \in DOMAIN ms |-> IF k \in DOMAIN sg THEN sg[k] ELSE ms[k].WrappedKeyset]

\* EncryptedClient.PutItem: encryptItem (schema, material name, new materials
\* stored, attribute loop), then the store's PutItem.
PPutItem(item) ==
    LET pkInfo == getPrimaryKeyInfo(PrimaryKeyCache, keySchema)
        name == ConstructMaterialName(item, pkInfo)
        enc == encryptItem(item, pkInfo, actions, fresh, fresh)
        stored == StoreNewMaterialOk(matStore, name)
    IN /\ steps < MaxPipeSteps
       /\ steps' = steps + 1
       /\ PrimaryKeyCache' = CacheAfter(PrimaryKeyCache, keySchema)
       /\ fresh' = fresh + 1
       /\ matStore' = StoreNewMaterial(matStore, name, MaterialDescription(fresh))
       /\ table' = IF stored THEN TablePut(table, StoreKey(enc, keySchema), enc)
                   ELSE table
       /\ plain' = IF stored THEN TablePut(plain, StoreKey(enc, keySchema), item)
                   ELSE plain
       /\ signedAt' = Signed(signedAt, matStore')
       /\ obs' = [NoObs EXCEPT !.kind = "put", !.ok = stored, !.orig = item,
                     !.key = StoreKey(item, keySchema), !.name = name,
                     !.handed = IF stored THEN {<<item, enc>>} ELSE {}]
       /\ UNCHANGED <<keySchema, actions, probe>>
       /\ UNCHANGED <<specVars, auxVars>>

\* EncryptedClient.BatchWriteItem.
BatchInputs ==
    {<<PutReq(i)>> : i \in Items} \cup {<<DelReq(k)>> : k \in KeyItems}
    \cup {<<PutReq(i), DelReq(k)>> : i \in Items, k \in KeyItems}
    \cup {<<PutReq(Item("a", probe, b, keySchema)),
             PutReq(Item("b", probe, b, keySchema))>> : b \in BOOLEAN}

PBatchWriteItem(reqs) ==
    LET pkInfo == getPrimaryKeyInfo(PrimaryKeyCache, keySchema)
        e == EncryptRequests(reqs, matStore, fresh, pkInfo, actions)
    IN /\ steps < MaxPipeSteps
       /\ steps' = steps + 1
       /\ PrimaryKeyCache' =
             IF \E i \in DOMAIN reqs : reqs[i].put
             THEN CacheAfter(PrimaryKeyCache, keySchema) ELSE PrimaryKeyCache
       /\ fresh' = e.fr
       /\ matStore' = e.ms
       /\ table' = IF e.ok THEN ApplyRequests(table, e.out, keySchema) ELSE table
       /\ plain' = IF e.ok THEN ApplyRequests(plain, reqs, keySchema) ELSE plain
       /\ signedAt' = Signed(signedAt, e.ms)
       /\ obs' = [NoObs EXCEPT !.kind = "batch", !.ok = e.ok,
                     !.handed = IF e.ok
                                THEN {<<reqs[i].item, e.out[i].item>> :
                                         i \in {j \in DOMAIN reqs : reqs[j].put}}
                                ELSE {}]
       /\ UNCHANGED <<keySchema, actions, probe>>
       /\ UNCHANGED <<specVars, auxVars>>

\* EncryptedClient.GetItem: the store's GetItem, "item not found" when there
\* is none, else decryptItem (schema, material name, DecryptionMaterials of
\* the latest version, attribute loop).
PGetItem(keyItem) ==
    LET key == StoreKey(keyItem, keySchema)
        found == key \in DOMAIN table
        stored == IF found THEN table[key] ELSE NoItem
        pkInfo == getPrimaryKeyInfo(PrimaryKeyCache, keySchema)
        name == ConstructMaterialName(keyItem, pkInfo)
        retrieved == found /\ RetrieveOk(matStore, name, 0)
        dm == IF retrieved THEN DecryptionMaterials(RetrieveMaterial(matStore, name, 0))
              ELSE NoMaterials
        ok == dm.ok /\ ~decryptFails(stored, pkInfo, actions, dm.key)
    IN /\ steps < MaxPipeSteps
       /\ steps' = steps + 1
       /\ PrimaryKeyCache' = IF found THEN CacheAfter(PrimaryKeyCache, keySchema)
                             ELSE PrimaryKeyCache
       /\ obs' = [NoObs EXCEPT !.kind = "get", !.ok = ok, !.key = key,
                     !.name = name, !.stored = stored, !.dmCalled = retrieved,
                     !.dm = dm,
                     !.got = IF ok THEN decryptItem(stored, pkInfo, actions, dm.key)
                             ELSE NoItem,
                     !.afterPut = obs.kind = "put" /\ obs.ok /\ obs.key = key,
                     !.orig = obs.orig]
       /\ UNCHANGED <<keySchema, actions, probe, table, matStore, fresh, plain, signedAt>>
       /\ UNCHANGED <<specVars, auxVars>>

\* The adversary overwrites the WrappedKeyset text of one material record:
\* with text that is not base64, with the base64 of altered bytes, or with
\* the WrappedKeyset of another record.
TamperedKeysets(k) ==
    {[matStore[k].WrappedKeyset EXCEPT !.ok = FALSE],
     [matStore[k].WrappedKeyset EXCEPT !.data.good = FALSE]}
    \cup {matStore[k2].WrappedKeyset : k2 \in DOMAIN matStore \ {k}}

TamperWrappedKeyset(k, w) ==
    /\ steps < MaxPipeSteps
    /\ steps' = steps + 1
    /\ w # matStore[k].WrappedKeyset
    /\ matStore' = [matStore EXCEPT ![k].WrappedKeyset = w]
    /\ obs' = [NoObs EXCEPT !.kind = "tamper"]
    /\ UNCHANGED <<keySchema, actions, probe, table, PrimaryKeyCache, fresh, plain, signedAt>>
    /\ UNCHANGED <<specVars, auxVars>>

\* The adversary copies the stored value of attribute a of one stored item
\* over (or in as) attribute b of the same item.
MoveAttribute(key, a, b) ==
    /\ steps < MaxPipeSteps
    /\ steps' = steps + 1
    /\ a \in DOMAIN table[key]
    /\ table[key][a].c.k # 0
    /\ table' = [table EXCEPT ![key] =
                    [n \in DOMAIN table[key] \cup {b} |->
                        IF n = b THEN table[key][a] ELSE table[key][n]]]
    /\ obs' = [NoObs EXCEPT !.kind = "tamper"]
    /\ UNCHANGED <<keySchema, actions, probe, matStore, PrimaryKeyCache, fresh, plain, signedAt>>
    /\ UNCHANGED <<specVars, auxVars>>

PipeNext ==
    \/ \E item \in Items : PPutItem(item)
    \/ \E reqs \in BatchInputs : PBatchWriteItem(reqs)
    \/ \E k \in KeyItems : PGetItem(k)
    \/ \E k \in DOMAIN matStore : \E w \in TamperedKeysets(k) : TamperWrappedKeyset(k, w)
    \/ \E key \in DOMAIN table : \E a, b \in {"A", "B"} : a # b /\ MoveAttribute(key, a, b)

PipeSpec == PipeInit /\ [][PipeNext]_vars

(***************************************************************************)
(* Spec: two threads share one EncryptedClient and the store.  A handler   *)
(* is cut at its store calls; each call takes effect atomically or fails.  *)
(***************************************************************************)
Init ==
    /\ keySchema \in Schemas
    /\ actions = [defaultAction |-> "Encrypt", attributeActions |-> {}]
    /\ probe = AvS("x")
    /\ table = [k \in {} |-> NoItem]
    /\ matStore = [k \in {} |-> MaterialDescription(0)]
    /\ PrimaryKeyCache = [t \in {} |-> TableInfo(<<>>)]
    /\ fresh = 1
    /\ steps = 0
    /\ obs = NoObs
    /\ plain = [k \in {} |-> NoItem]
    /\ signedAt = [k \in {} |-> EncodeToString(WrapKeyset(0, KeyID))]
    /\ SpecVarsInit
    /\ AuxVarsInit

SpecItems == {Item(pk, probe, FALSE, keySchema) : pk \in PKVals}

SpecBatches ==
    {<<DelReq(k)>> : k \in KeyItems}
    \cup {<<PutReq(Item("b", probe, FALSE, keySchema)), DelReq(KeyItem("a", keySchema))>>}

\* The index of the first put request of reqs at or after i; past the end
\* when there is none.
RECURSIVE NextPut(_, _)
NextPut(reqs, i) ==
    IF i > Len(reqs) THEN i
    ELSE IF reqs[i].put THEN i ELSE NextPut(reqs, i + 1)

\* DeleteItem's Query: the versions stored under the name, ascending.
RECURSIVE SortedSeq(_)
SortedSeq(S) ==
    IF S = {} THEN <<>>
    ELSE LET m == CHOOSE x \in S : \A y \in S : x <= y
         IN <<m>> \o SortedSeq(S \ {m})

QueryVersionsLatest(ms, materialName) ==
    IF Versions(ms, materialName) = {} THEN <<>>
    ELSE <<getLastVersion(ms, materialName)>>

QueryVersions(ms, materialName) == SortedSeq(Versions(ms, materialName))

\* Every handler hands a store call's error to its caller at once.
OnErrorContinue(step) == IF step = "del_item" THEN "del_query" ELSE "idle"

OnErrorProceed(step) == IF step = "write" THEN "store" ELSE "idle"

OnError(step) == "idle"

\* History: the material names of the items an operation removes.
RemovedNames(o) ==
    IF o.kind = "DeleteItem"
    THEN {ConstructMaterialName(o.keyItem, TableInfo(keySchema))}
    ELSE {ConstructMaterialName(o.reqs[j].item, TableInfo(keySchema)) :
             j \in {x \in DOMAIN o.reqs : ~o.reqs[x].put}}

\* History: what thread t's operation, with locals o, returns, and the
\* material records it leaves under the names of the items it removed.
Returned(t, o, ok, ms) ==
    [kind |-> o.kind, ok |-> ok, failedAt |-> IF ok THEN "" ELSE pc[t],
     removed |-> RemovedNames(o),
     left |-> {k \in DOMAIN ms : k[1] \in RemovedNames(o)},
     itemDeleted |-> o.itemDeleted, matTouched |-> o.matTouched]

\* History of the sequential run: operations that do not overlap, all on
\* one logical item, all successful, PutItems and then one DeleteItem,
\* counted from an empty material store.
SeqBegin(t, kind, pk) ==
    IF \/ \E u \in Threads \ {t} : pc[u] # "idle"
       \/ seq.mode = "dirty"
       \/ kind = "BatchWriteItem"
    THEN [seq EXCEPT !.mode = "dirty"]
    ELSE IF seq.mode = "deleted" \/ seq.k = 0
    THEN IF DOMAIN matStore = {} THEN [mode |-> "puts", pk |-> pk, k |-> 0]
         ELSE [seq EXCEPT !.mode = "dirty"]
    ELSE IF seq.pk # pk THEN [seq EXCEPT !.mode = "dirty"]
    ELSE seq

SeqReturn(o, ok) ==
    IF seq.mode = "dirty" \/ ~ok THEN [seq EXCEPT !.mode = "dirty"]
    ELSE IF o.kind = "PutItem" THEN [seq EXCEPT !.k = seq.k + 1]
    ELSE [seq EXCEPT !.mode = "deleted"]

\* History of a race: when t's conditional write is evaluated, every thread
\* that has read the same last version of the same name and has not written
\* yet is racing with t, and t's own open race is decided.
RaceAtWrite(t, cond, ms, returns) ==
    [u \in Threads |->
        IF u = t
        THEN IF race[t].open
             THEN [race[t] EXCEPT !.done = TRUE, !.secondOk = cond,
                                  !.returned = returns,
                                  !.kept = /\ race[t].key \in DOMAIN ms
                                           /\ ms[race[t].key] = race[t].desc]
             ELSE race[t]
        ELSE IF /\ pc[u] = "write"
                /\ op[u].name = op[t].name
                /\ op[u].readVer = op[t].readVer
             THEN [NoRace EXCEPT !.open = TRUE,
                                 !.key = <<op[t].name, NewVersion(op[t].readVer)>>,
                                 !.desc = MaterialDescription(op[t].key),
                                 !.firstOk = cond]
             ELSE race[u]]

RaceAtDelete(key) ==
    [u \in Threads |->
        IF race[u].open /\ ~race[u].done /\ race[u].key = key
        THEN [race[u] EXCEPT !.intact = FALSE] ELSE race[u]]

\* A handler returns.
Finish(t, o, ok, ms) ==
    /\ pc' = [pc EXCEPT ![t] = "idle"]
    /\ op' = [op EXCEPT ![t] = NoOp]
    /\ last' = [last EXCEPT ![t] = Returned(t, o, ok, ms)]
    /\ seq' = SeqReturn(o, ok)

\* EncryptedClient.PutItem is called.
PutItem(t, item) ==
    /\ pc[t] = "idle" /\ nops < MaxOps
    /\ nops' = nops + 1
    /\ pc' = [pc EXCEPT ![t] = "read"]
    /\ op' = [op EXCEPT ![t] = [NoOp EXCEPT !.kind = "PutItem",
                                           !.reqs = <<PutReq(item)>>, !.i = 1]]
    /\ seq' = SeqBegin(t, "PutItem", item["PK"].s)
    /\ UNCHANGED <<keySchema, actions, probe, table, matStore, PrimaryKeyCache,
                   fresh, last, fails, race>>
    /\ UNCHANGED <<pipeVars, auxVars>>

\* EncryptedClient.BatchWriteItem is called: its loop goes to the first put.
BatchWriteItem(t, reqs) ==
    /\ pc[t] = "idle" /\ nops < MaxOps
    /\ nops' = nops + 1
    /\ pc' = [pc EXCEPT ![t] = IF NextPut(reqs, 1) > Len(reqs) THEN "store" ELSE "read"]
    /\ op' = [op EXCEPT ![t] = [NoOp EXCEPT !.kind = "BatchWriteItem",
                                           !.reqs = reqs, !.i = NextPut(reqs, 1)]]
    /\ seq' = SeqBegin(t, "BatchWriteItem", "")
    /\ UNCHANGED <<keySchema, actions, probe, table, matStore, PrimaryKeyCache,
                   fresh, last, fails, race>>
    /\ UNCHANGED <<pipeVars, auxVars>>

\* encryptItem up to StoreNewMaterial's getLastVersion: the schema, the
\* material name, new keysets, and the Query for the last version.
encryptItemRead(t) ==
    LET item == op[t].reqs[op[t].i].item
        name == ConstructMaterialName(item, getPrimaryKeyInfo(PrimaryKeyCache, keySchema))
    IN /\ pc[t] = "read"
       /\ pc' = [pc EXCEPT ![t] = "write"]
       /\ op' = [op EXCEPT ![t].name = name,
                           ![t].readVer = getLastVersion(matStore, name),
                           ![t].key = fresh]
       /\ fresh' = fresh + 1
       /\ PrimaryKeyCache' = CacheAfter(PrimaryKeyCache, keySchema)
       /\ race' = [race EXCEPT ![t] = NoRace]
       /\ UNCHANGED <<keySchema, actions, probe, table, matStore, last, fails,
                      nops, seq>>
       /\ UNCHANGED <<pipeVars, auxVars>>

\* StoreNewMaterial's conditional Put, then the rest of encryptItem: on a
\* failed condition the handler returns the error; else the request's item
\* is replaced by its encrypted form and the loop goes to the next put.
encryptItemWrite(t) ==
    LET o == op[t]
        nv == NewVersion(o.readVer)
        cond == ConditionHolds(matStore, o.name, nv)
        ms == IF cond THEN MatPut(matStore, o.name, nv, MaterialDescription(o.key))
              ELSE matStore
        enc == encryptItem(o.reqs[o.i].item,
                           getPrimaryKeyInfo(PrimaryKeyCache, keySchema),
                           actions, o.key, o.key)
        j == NextPut(o.reqs, o.i + 1)
    IN /\ pc[t] = "write"
       /\ matStore' = ms
       /\ race' = RaceAtWrite(t, cond, ms, ~cond)
       /\ IF cond
          THEN /\ pc' = [pc EXCEPT ![t] = IF j > Len(o.reqs) THEN "store" ELSE "read"]
               /\ op' = [op EXCEPT ![t].reqs[o.i].item = enc, ![t].i = j]
               /\ UNCHANGED <<last, seq>>
          ELSE Finish(t, o, FALSE, ms)
       /\ UNCHANGED <<keySchema, actions, probe, table, PrimaryKeyCache, fresh,
                      fails, nops>>
       /\ UNCHANGED <<pipeVars, auxVars>>

\* The store's PutItem, or its BatchWriteItem with the requests as the loop
\* left them.
StoreWrite(t) ==
    /\ pc[t] = "store"
    /\ table' = ApplyRequests(table, op[t].reqs, keySchema)
    /\ Finish(t, op[t], TRUE, matStore)
    /\ UNCHANGED <<keySchema, actions, probe, matStore, PrimaryKeyCache, fresh,
                   fails, nops, race>>
    /\ UNCHANGED <<pipeVars, auxVars>>

\* EncryptedClient.DeleteItem is called.
DeleteItem(t, keyItem) ==
    /\ pc[t] = "idle" /\ nops < MaxOps
    /\ nops' = nops + 1
    /\ pc' = [pc EXCEPT ![t] = "del_item"]
    /\ op' = [op EXCEPT ![t] = [NoOp EXCEPT !.kind = "DeleteItem",
                                           !.keyItem = keyItem]]
    /\ seq' = SeqBegin(t, "DeleteItem", keyItem["PK"].s)
    /\ UNCHANGED <<keySchema, actions, probe, table, matStore, PrimaryKeyCache,
                   fresh, last, fails, race>>
    /\ UNCHANGED <<pipeVars, auxVars>>

\* DeleteItem's first call: the store's DeleteItem.
DeleteItemStore(t) ==
    /\ pc[t] = "del_item"
    /\ table' = TableDelete(table, StoreKey(op[t].keyItem, keySchema))
    /\ pc' = [pc EXCEPT ![t] = "del_query"]
    /\ op' = [op EXCEPT ![t].itemDeleted = TRUE]
    /\ UNCHANGED <<keySchema, actions, probe, matStore, PrimaryKeyCache, fresh,
                   last, fails, nops, seq, race>>
    /\ UNCHANGED <<pipeVars, auxVars>>

\* DeleteItem's schema lookup, material name and Query for the versions.
DeleteItemQuery(t) ==
    LET name == ConstructMaterialName(op[t].keyItem,
                                      getPrimaryKeyInfo(PrimaryKeyCache, keySchema))
        o == [op[t] EXCEPT !.name = name, !.matTouched = TRUE,
                           !.pending = QueryVersions(matStore, name)]
    IN /\ pc[t] = "del_query"
       /\ PrimaryKeyCache' = CacheAfter(PrimaryKeyCache, keySchema)
       /\ IF o.pending = <<>>
          THEN Finish(t, o, TRUE, matStore)
          ELSE /\ pc' = [pc EXCEPT ![t] = "del_version"]
               /\ op' = [op EXCEPT ![t] = o]
               /\ UNCHANGED <<last, seq>>
       /\ UNCHANGED <<keySchema, actions, probe, table, matStore, fresh, fails,
                      nops, race>>
       /\ UNCHANGED <<pipeVars, auxVars>>

\* One turn of DeleteItem's loop: the store's BatchWriteItem deleting the
\* next version the Query returned.
DeleteItemVersion(t) ==
    LET key == <<op[t].name, Head(op[t].pending)>>
        ms == MatDelete(matStore, key)
        o == [op[t] EXCEPT !.pending = Tail(op[t].pending)]
    IN /\ pc[t] = "del_version"
       /\ matStore' = ms
       /\ race' = RaceAtDelete(key)
       /\ IF o.pending = <<>>
          THEN Finish(t, o, TRUE, ms)
          ELSE /\ op' = [op EXCEPT ![t] = o]
               /\ UNCHANGED <<pc, last, seq>>
       /\ UNCHANGED <<keySchema, actions, probe, table, PrimaryKeyCache, fresh,
                      fails, nops>>
       /\ UNCHANGED <<pipeVars, auxVars>>

\* The store call thread t is about to make fails.  Where the step starts
\* with the schema lookup, either that or the Query after it has failed.
StoreFails(t) ==
    /\ pc[t] # "idle" /\ fails < MaxFails
    /\ fails' = fails + 1
    /\ PrimaryKeyCache' \in
          IF pc[t] \in {"read", "del_query", "get_version"}
          THEN {PrimaryKeyCache, CacheAfter(PrimaryKeyCache, keySchema)}
          ELSE {PrimaryKeyCache}
    /\ race' = IF pc[t] = "write" THEN [race EXCEPT ![t] = NoRace] ELSE race
    /\ IF OnError(pc[t]) = "idle"
       THEN Finish(t, op[t], FALSE, matStore)
       ELSE /\ pc' = [pc EXCEPT ![t] = OnError(pc[t])]
            /\ UNCHANGED <<op, last, seq>>
    /\ UNCHANGED <<keySchema, actions, probe, table, matStore, fresh, nops>>
    /\ UNCHANGED <<pipeVars, auxVars>>

Next ==
    \/ \E t \in Threads : \E item \in SpecItems : PutItem(t, item)
    \/ \E t \in Threads : \E reqs \in SpecBatches : BatchWriteItem(t, reqs)
    \/ \E t \in Threads : \E k \in KeyItems : DeleteItem(t, k)
    \/ \E t \in Threads : encryptItemRead(t)
    \/ \E t \in Threads : encryptItemWrite(t)
    \/ \E t \in Threads : StoreWrite(t)
    \/ \E t \in Threads : DeleteItemStore(t)
    \/ \E t \in Threads : DeleteItemQuery(t)
    \/ \E t \in Threads : DeleteItemVersion(t)
    \/ \E t \in Threads : StoreFails(t)

Spec == Init /\ [][Next]_vars

(***************************************************************************)
(* Properties of the pipeline, checked under PipeSpec.                     *)
(***************************************************************************)
PipeKeyInfo == TableInfo(keySchema)

\* C1: PutItem followed directly by GetItem on the same key returns an item
\* equal to the original: the same attribute names and, under each name, a
\* value of the same type and content.
C1_GetAfterPutReturnsOriginal ==
    (obs.kind = "get" /\ obs.afterPut) => (obs.ok /\ obs.got = obs.orig)

\* C2, as stated: in every item handed to the store by a successful PutItem
\* or BatchWriteItem put, the key attributes carry exactly the caller's
\* values and every attribute whose configured action is Encrypt or
\* EncryptDeterministically is a binary value.
C2_EveryEncryptConfiguredAttributeIsBinary ==
    \A p \in obs.handed :
        /\ \A k \in DOMAIN p[1] :
              IsKeyAttr(PipeKeyInfo, k) => (k \in DOMAIN p[2] /\ p[2][k] = p[1][k])
        /\ \A k \in DOMAIN p[1] :
              GetAttributeAction(actions, k) \in EncryptActions
                  => (k \in DOMAIN p[2] /\ p[2][k].t = "B")

\* C2, amended: in every item handed to the store by a successful PutItem or
\* BatchWriteItem put, the key attributes carry exactly the caller's values
\* and every attribute that is not a key attribute and whose configured
\* action is Encrypt or EncryptDeterministically is a binary value; the item
\* the table then holds under that key is the item handed over.
C2_KeysUntouchedOthersBinary ==
    \A p \in obs.handed :
        /\ \A k \in DOMAIN p[1] :
              IsKeyAttr(PipeKeyInfo, k) => (k \in DOMAIN p[2] /\ p[2][k] = p[1][k])
        /\ \A k \in DOMAIN p[1] :
              (~IsKeyAttr(PipeKeyInfo, k)
                 /\ GetAttributeAction(actions, k) \in EncryptActions)
                  => (k \in DOMAIN p[2] /\ p[2][k].t = "B" /\ p[2][k] # p[1][k])
        /\ obs.kind = "put" => table[StoreKey(p[1], keySchema)] = p[2]

C2_Witness ==
    /\ obs.kind = "batch" /\ obs.ok
    /\ HasRange(keySchema)
    /\ GetAttributeAction(actions, "PK") = "Encrypt"
    /\ \E p \in obs.handed :
          /\ p[2]["A"].t = "B" /\ p[1]["A"].t # "B"
          /\ p[2]["PK"] = AvS("a") /\ p[2]["SK"] = AvS(SKVal)

\* C3: with EncryptDeterministically configured for attribute A, two stored
\* items that differ in primary key and were put with the same value under A
\* hold equal binary values under A.
C3_DeterministicValuesEqual ==
    \A k1, k2 \in DOMAIN table :
        (/\ k1 # k2
         /\ GetAttributeAction(actions, "A") = "EncryptDeterministically"
         /\ plain[k1]["A"] = plain[k2]["A"]
         /\ \A k \in {k1, k2} :
               /\ table[k]["A"].c.ad = "A"
               /\ table[k]["A"].c.pt = AttributeValueToBytes(plain[k]["A"]))
        => table[k1]["A"] = table[k2]["A"]

\* C9: DecryptionMaterials returns a key only if the stored Signature
\* verifies over the decoded stored WrappedKeyset under the stored PublicKey;
\* when the stored WrappedKeyset differs from what was signed at encryption
\* time, it returns an error, the unwrap is not attempted and GetItem fails.
ObsDescKey == <<obs.name, getLastVersion(matStore, obs.name)>>

C9_KeyOnlyAfterVerifiedSignature ==
    (obs.kind = "get" /\ obs.dmCalled) =>
        LET desc == matStore[ObsDescKey]
        IN /\ obs.dm.ok =>
                /\ DecodeOk(desc.WrappedKeyset) /\ DecodeOk(desc.Signature)
                /\ DecodeOk(desc.PublicKey)
                /\ VerifySignature(desc.PublicKey.data, desc.Signature.data,
                                   desc.WrappedKeyset.data)
           /\ desc.WrappedKeyset # signedAt[ObsDescKey] =>
                (~obs.dm.ok /\ ~obs.dm.unwrapTried /\ ~obs.ok)

C9_Witness ==
    /\ obs.kind = "get" /\ obs.dmCalled /\ ~obs.ok
    /\ DecodeOk(matStore[ObsDescKey].WrappedKeyset)
    /\ matStore[ObsDescKey].WrappedKeyset.data.good
    /\ matStore[ObsDescKey].WrappedKeyset # signedAt[ObsDescKey]

\* C10: an attribute the stored item holds a ciphertext under although the
\* ciphertext was made for another attribute name.
Misplaced(item, b) == item[b].c.k # 0 /\ item[b].c.ad # b

AtRest == \A t \in Threads : pc[t] = "idle"

MaterialNames == {k[1] : k \in DOMAIN matStore}

SeqName == ConstructMaterialName(KeyItem(seq.pk, keySchema), TableInfo(keySchema))

\* C4: after any sequence of PutItem, BatchWriteItem and DeleteItem
\* operations, failed ones included, the versions stored under each material
\* name are exactly 1..n for some n: they start at 1 and have no gaps.
C4_VersionsContiguousFromOne ==
    AtRest =>
        \A name \in MaterialNames :
            Versions(matStore, name) = 1..Cardinality(Versions(matStore, name))

C7_NoMaterialLeftAfterRemoval ==
    \A t \in Threads :
        (last[t].ok /\ last[t].kind \in {"DeleteItem", "BatchWriteItem"})
            => last[t].left = {}

\* C8: DeleteItem queries and deletes material records only after its item
\* delete has succeeded, and returns without doing either when the item
\* delete fails; when the schema lookup, the version Query or a version
\* delete fails after the item delete, DeleteItem returns an error and the
\* failing step leaves the table and every stored material version as they
\* are.
DeleteSteps == {"del_item", "del_query", "del_version"}

C8_MaterialsOnlyAfterItemDelete ==
    \A t \in Threads :
        /\ pc[t] \in {"del_query", "del_version"} => op[t].itemDeleted
        /\ (op[t].matTouched \/ op[t].pending # <<>>) =>
              (op[t].itemDeleted /\ pc[t] = "del_version")
        /\ (last[t].kind = "DeleteItem" /\ last[t].matTouched) => last[t].itemDeleted
        /\ (last[t].kind = "DeleteItem" /\ last[t].failedAt = "del_item") =>
              (~last[t].ok /\ ~last[t].itemDeleted /\ ~last[t].matTouched)

C8_FailedStepReturnsError ==
    \A t \in Threads :
        (fails' = fails + 1 /\ pc[t] \in DeleteSteps /\ pc'[t] # pc[t]) =>
            /\ pc'[t] = "idle"
            /\ last'[t].kind = "DeleteItem" /\ ~last'[t].ok
            /\ last'[t].failedAt = pc[t]
            /\ last'[t].itemDeleted = (pc[t] # "del_item")
            /\ table' = table
            /\ matStore' = matStore

C8_DeleteItemOrderAndErrors ==
    []C8_MaterialsOnlyAfterItemDelete /\ [][C8_FailedStepReturnsError]_vars

C8_Witness ==
    \E t \in Threads :
        /\ last[t].kind = "DeleteItem" /\ ~last[t].ok
        /\ last[t].failedAt = "del_version"
        /\ last[t].itemDeleted
        /\ last[t].left # {}
        /\ \A k \in last[t].left : k \in DOMAIN matStore
        /\ pc[t] = "idle"

(***************************************************************************)
(* SerdeSpec: one caller of the codec.  It serializes a value and then    *)
(* deserializes the bytes it got, or it deserializes bytes from anywhere.  *)
(* The client is not used.                                                 *)
(***************************************************************************)
\* Go text as bytes: "a", "b", "1", "2", "10", "1.50", "1e309".
TxtA == <<97>>
TxtB == <<98>>
Num1 == <<49>>
Num2 == <<50>>
Num10 == <<49, 48>>
Num150 == <<49, 46, 53, 48>>
Num1e309 == <<49, 101, 51, 48, 57>>

SerdeScalars ==
    {SvB(<<>>), SvB(<<1>>), SvS(TxtA), SvN(Num1), SvN(Num150), SvN(Num1e309),
     SvBOOL(TRUE), SvBOOL(FALSE), SvNULL}

\* Sets have distinct members; each comes in both slice orders.
SerdeSets ==
    {SvSS(<<TxtA, TxtB>>), SvSS(<<TxtB, TxtA>>), SvSS(<<TxtA>>),
     SvBS(<<<<1>>, <<2>>>>), SvBS(<<<<2>>, <<1>>>>), SvBS(<<<<2, 1>>, <<2>>>>),
     SvNS(<<Num2, Num10>>), SvNS(<<Num10, Num2>>), SvNS(<<Num1e309>>)}

SerdeSimple == SerdeScalars \cup SerdeSets

\* Maps have distinct keys; each comes in both iteration orders.
SerdeListsOf(members) ==
    {SvL(<<>>)} \cup {SvL(<<x>>) : x \in members}
        \cup {SvL(<<x, y>>) : x \in members, y \in members}

SerdeMapsOf(members) ==
    {SvM(<<>>)} \cup {SvM(<<<<TxtA, x>>>>) : x \in members}
        \cup {SvM(<<<<TxtA, x>>, <<TxtB, y>>>>) : x \in members, y \in members}
        \cup {SvM(<<<<TxtB, y>>, <<TxtA, x>>>>) : x \in members, y \in members}

SerdeNested ==
    {SvL(<<SvL(<<x>>)>>) : x \in SerdeSimple}
        \cup {SvM(<<<<TxtA, m>>>>) : m \in SerdeMapsOf({SvNULL, SvS(TxtA), SvN(Num150)})}
        \cup {SvL(<<m, SvNULL>>) : m \in SerdeMapsOf({SvBOOL(TRUE), SvN(Num1e309)})}

SerdeValues ==
    SerdeSimple \cup SerdeListsOf(SerdeSimple) \cup SerdeMapsOf(SerdeSimple)
        \cup SerdeNested

\* Bytes from anywhere: short strings over a few bytes, and a header with a
\* length prefix (whole, cut short, or larger than any input) and a tail.
MaxTail == 3
SerdeBytes == {0, 1, 97, tagString, tagNull}
SerdeHeads == Tags \cup {1, 255}
SerdePrefixes ==
    {<<0, 0, 0, 0>>, <<0, 0, 0, 1>>, <<0, 0, 0, 2>>, <<255, 255, 255, 255>>, <<0, 0, 1>>}
SerdeTails == UNION {[1..n -> SerdeBytes] : n \in 0..MaxTail}
SerdeInputs ==
    SerdeTails
        \cup {<<r, tag>> \o p \o t :
                r \in {0, 1}, tag \in SerdeHeads, p \in SerdePrefixes, t \in SerdeTails}

Serialize(v) ==
    /\ serde.phase = "idle"
    /\ serde' = [SerdeIdle EXCEPT !.phase = "serialized", !.v = v,
                                  !.out = SerializeAttribute(v)]
    /\ UNCHANGED <<clientVars, PrimaryKeyCache, pipeVars, specVars, cacheVars, opsVars, keyVars>>

Deserialize(data, oom) ==
    LET roundTrip == /\ serde.phase = "serialized"
                     /\ serde.out.st = "ok"
                     /\ data = serde.out.bytes
    IN /\ serde' = [SerdeIdle EXCEPT !.phase = "deserialized",
                                     !.v = IF roundTrip THEN serde.v ELSE SvNone,
                                     !.data = data, !.oom = oom,
                                     !.res = DeserializeAttribute(data, oom),
                                     !.roundTrip = roundTrip]
       /\ UNCHANGED <<clientVars, PrimaryKeyCache, pipeVars, specVars, cacheVars, opsVars, keyVars>>

SerdeNext ==
    \/ \E v \in SerdeValues : Serialize(v)
    \/ \E oom \in BOOLEAN :
         \E data \in (IF serde.phase = "idle" THEN SerdeInputs
                      ELSE IF serde.phase = "serialized" /\ serde.out.st = "ok"
                      THEN {serde.out.bytes} ELSE {}) :
            Deserialize(data, oom)

SerdeSpec == Init /\ [][SerdeNext]_vars

(***************************************************************************)
(* Claims about the codec (SerdeSpec).                                     *)
(***************************************************************************)
\* A value with its set members and map entries put in one order.
RECURSIVE Canon(_)
Canon(v) ==
    CASE v.t = "L" -> SvL([i \in DOMAIN v.l |-> Canon(v.l[i])])
      [] v.t = "M" ->
            SvM(sortedKeyMap([i \in DOMAIN v.m |-> <<v.m[i][1], Canon(v.m[i][2])>>]))
      [] v.t \in {"BS", "NS", "SS"} -> [v EXCEPT !.ss = SortBytes(v.ss)]
      [] OTHER -> v

\* C11: whenever the bytes SerializeAttribute returned for a value are
\* deserialized, DeserializeAttribute succeeds and returns that value, up to
\* the order of set members and map keys.
C11_RoundTripReturnsValue ==
    (serde.phase = "deserialized" /\ serde.roundTrip)
        => /\ serde.res.st = "ok"
           /\ Canon(serde.res.v) = Canon(serde.v)

Ascending(members) ==
    \A i \in 1..(Len(members) - 1) : BytesLess(members[i], members[i + 1])

\* What a serialized map or set holds after its tag: the declared count, the
\* entries or members as emitted, and whether they end where the bytes end.
Emitted(bytes) ==
    LET count == decodeLength(bytes, 3)
        entries == deserializeMapMembers(bytes, count.pos, count.n, <<>>, FALSE)
        members == deserializeSetMembers(bytes, count.pos, count.n, <<>>)
    IN [count |-> count.n,
        keys |-> IF bytes[2] = tagMap /\ entries.st = "ok"
                 THEN [i \in DOMAIN entries.v.m |-> entries.v.m[i][1]] ELSE <<>>,
        members |-> IF bytes[2] # tagMap /\ members.st = "ok" THEN members.bs ELSE <<>>,
        whole |-> IF bytes[2] = tagMap
                  THEN entries.st = "ok" /\ entries.pos = Len(bytes) + 1
                  ELSE members.st = "ok" /\ members.pos = Len(bytes) + 1]

\* C12: a value serializes to the bytes of the value that has its members
\* and entries in one fixed order, so all orders of the same members and
\* entries serialize to the same bytes; a serialized map holds its
\* keys in ascending byte order, a serialized set its members in ascending
\* byte order, and the count is the number of entries emitted.
C12_CanonicalSerialization ==
    (serde.phase = "serialized" /\ serde.out.st = "ok")
        => /\ SerializeAttribute(Canon(serde.v)) = serde.out
           /\ serde.v.t = "M"
                => LET e == Emitted(serde.out.bytes)
                   IN e.whole /\ Ascending(e.keys) /\ e.count = Len(e.keys)
                      /\ e.count = Len(serde.v.m)
           /\ serde.v.t \in {"BS", "NS", "SS"}
                => LET e == Emitted(serde.out.bytes)
                   IN e.whole /\ Ascending(e.members) /\ e.count = Len(e.members)
                      /\ e.count = Len(serde.v.ss)

\* A map given with its keys out of order, holding a set given with its
\* members out of order, has been serialized.
C12_Witness ==
    /\ serde.phase = "serialized"
    /\ serde.out.st = "ok"
    /\ serde.v.t = "M"
    /\ Len(serde.v.m) = 2
    /\ serde.v.m[1][1] = TxtB
    /\ serde.v.m[1][2] = SvSS(<<TxtB, TxtA>>)

\* Inputs that are malformed whatever follows: no bytes, a reserved byte
\* that is not null, no tag, a tag that is not defined, a length prefix or
\* boolean cut short, or a declared length or count of more than the bytes
\* that are left.
Malformed(data) ==
    \/ Len(data) < 2
    \/ data[1] # 0
    \/ data[2] \notin Tags
    \/ data[2] = tagBoolean /\ Len(data) < 3
    \/ /\ data[2] \notin {tagBoolean, tagNull}
       /\ \/ Len(data) < 6
          \/ decodeLength(data, 3).n > Len(data) - 6

\* C13: DeserializeAttribute returns an error and no value for every
\* malformed input.
C13_MalformedInputReturnsError ==
    (serde.phase = "deserialized" /\ Malformed(serde.data))
        => /\ serde.res.st = "err"
           /\ serde.res.v = SvNone

\* C14: SerializeAttribute returns bytes and no error, and does not panic,
\* for every well-typed value.
C14_SerializeIsTotal ==
    serde.phase = "serialized" => serde.out.st = "ok"

(***************************************************************************)
(* CacheSpec: threads of one client call getPrimaryKeyInfo, cut at every   *)
(* lock operation, at the reads of the cache and at DescribeTable.  The    *)
(* store answers DescribeTable with an error or with a key schema, which   *)
(* may hold no HASH key.                                                   *)
(***************************************************************************)
MaxCalls == 4

NoHashSchemas == {<<>>, <<[AttributeName |-> "SK", KeyType |-> "RANGE"]>>}

DescribeOutcomes ==
    {NoDescribe} \cup {[err |-> FALSE, ks |-> ks] : ks \in Schemas \cup NoHashSchemas}

\* TableInfo for a table of any name.
TableInfoOf(tableName, ks) == [TableInfo(ks) EXCEPT !.Table = tableName]

\* pkInfo, exists := ec.PrimaryKeyCache[tableName], under the exclusive lock.
RecheckNever(cache, tableName) == FALSE
RecheckExists(cache, tableName) == tableName \in DOMAIN cache

\* return: the deferred Unlock when the exclusive lock is held, the result.
CacheReturn(t, kind, pkInfo, via) ==
    /\ cret' = [cret EXCEPT ![t] = [kind |-> kind, tableName |-> cop[t].tableName,
                                    pkInfo |-> pkInfo, via |-> via,
                                    attempted |-> cop'[t].attempted,
                                    outcome |-> cop'[t].outcome]]
    /\ cpc' = [cpc EXCEPT ![t] = "idle"]
    /\ rwlock' = IF rwlock.w = t THEN [rwlock EXCEPT !.w = 0] ELSE rwlock

CacheCall(t, tableName) ==
    /\ cpc[t] = "idle"
    /\ cstat.calls < MaxCalls
    /\ cstat' = [cstat EXCEPT !.calls = @ + 1]
    /\ cop' = [cop EXCEPT ![t] = [NoCop EXCEPT !.tableName = tableName]]
    /\ cpc' = [cpc EXCEPT ![t] = "RLock"]
    /\ UNCHANGED <<rwlock, cret, PrimaryKeyCache>>
    /\ UNCHANGED <<clientVars, pipeVars, specVars, serde, opsVars, keyVars>>

CacheRLock(t) ==
    /\ cpc[t] = "RLock"
    /\ rwlock.w = 0
    /\ rwlock' = [rwlock EXCEPT !.r = @ \cup {t}]
    /\ cpc' = [cpc EXCEPT ![t] = "read"]
    /\ UNCHANGED <<cop, cret, cstat, PrimaryKeyCache>>
    /\ UNCHANGED <<clientVars, pipeVars, specVars, serde, opsVars, keyVars>>

CacheRead(t) ==
    /\ cpc[t] = "read"
    /\ LET exists == cop[t].tableName \in DOMAIN PrimaryKeyCache
       IN cop' = [cop EXCEPT ![t].exists = exists,
                             ![t].pkInfo = IF exists THEN PrimaryKeyCache[cop[t].tableName]
                                           ELSE @]
    /\ cpc' = [cpc EXCEPT ![t] = "RUnlock"]
    /\ UNCHANGED <<rwlock, cret, cstat, PrimaryKeyCache>>
    /\ UNCHANGED <<clientVars, pipeVars, specVars, serde, opsVars, keyVars>>

CacheRUnlock(t) ==
    /\ cpc[t] = "RUnlock"
    /\ IF cop[t].exists
       THEN /\ cop' = cop
            /\ cret' = [cret EXCEPT ![t] = [NoCret EXCEPT !.kind = "ok",
                                                          !.tableName = cop[t].tableName,
                                                          !.pkInfo = cop[t].pkInfo,
                                                          !.via = "read"]]
            /\ cpc' = [cpc EXCEPT ![t] = "idle"]
       ELSE /\ cpc' = [cpc EXCEPT ![t] = "Lock"]
            /\ UNCHANGED <<cop, cret>>
    /\ rwlock' = [rwlock EXCEPT !.r = @ \ {t}]
    /\ UNCHANGED <<cstat, PrimaryKeyCache>>
    /\ UNCHANGED <<clientVars, pipeVars, specVars, serde, opsVars, keyVars>>

CacheLock(t) ==
    /\ cpc[t] = "Lock"
    /\ rwlock.w = 0
    /\ rwlock.r = {}
    /\ rwlock' = [rwlock EXCEPT !.w = t]
    /\ cpc' = [cpc EXCEPT ![t] = "recheck"]
    /\ UNCHANGED <<cop, cret, cstat, PrimaryKeyCache>>
    /\ UNCHANGED <<clientVars, pipeVars, specVars, serde, opsVars, keyVars>>

CacheRecheck(t) ==
    /\ cpc[t] = "recheck"
    /\ IF RecheckExists(PrimaryKeyCache, cop[t].tableName)
       THEN /\ cop' = cop
            /\ CacheReturn(t, "ok", PrimaryKeyCache[cop[t].tableName], "recheck")
       ELSE /\ cpc' = [cpc EXCEPT ![t] = "TableInfo"]
            /\ UNCHANGED <<cop, cret, rwlock>>
    /\ UNCHANGED <<cstat, PrimaryKeyCache>>
    /\ UNCHANGED <<clientVars, pipeVars, specVars, serde, opsVars, keyVars>>

CacheTableInfo(t, outcome) ==
    /\ cpc[t] = "TableInfo"
    /\ cop' = [cop EXCEPT ![t].attempted = TRUE, ![t].outcome = outcome,
                          ![t].pkInfo = TableInfoOf(cop[t].tableName, outcome.ks)]
    /\ cstat' = [cstat EXCEPT
                   !.describes[cop[t].tableName] = IF outcome.err THEN @ ELSE @ + 1,
                   !.infos[cop[t].tableName] =
                       IF ~outcome.err /\ TableInfoOk(outcome.ks) THEN @ + 1 ELSE @]
    /\ IF outcome.err \/ ~TableInfoOk(outcome.ks)
       THEN CacheReturn(t, "err", TableInfo(<<>>), "TableInfo")
       ELSE /\ cpc' = [cpc EXCEPT ![t] = "insert"]
            /\ UNCHANGED <<cret, rwlock>>
    /\ UNCHANGED PrimaryKeyCache
    /\ UNCHANGED <<clientVars, pipeVars, specVars, serde, opsVars, keyVars>>

CacheInsertStep(t) ==
    /\ cpc[t] = "insert"
    /\ PrimaryKeyCache' = CacheInsert(PrimaryKeyCache, cop[t].tableName, cop[t].pkInfo)
    /\ cop' = cop
    /\ CacheReturn(t, "ok", cop[t].pkInfo, "insert")
    /\ UNCHANGED cstat
    /\ UNCHANGED <<clientVars, pipeVars, specVars, serde, opsVars, keyVars>>

CacheNext ==
    \E t \in CacheThreads :
        \/ \E tableName \in CacheTables : CacheCall(t, tableName)
        \/ CacheRLock(t)
        \/ CacheRead(t)
        \/ CacheRUnlock(t)
        \/ CacheLock(t)
        \/ CacheRecheck(t)
        \/ \E outcome \in DescribeOutcomes : CacheTableInfo(t, outcome)
        \/ CacheInsertStep(t)

CacheSpec == Init /\ [][CacheNext]_vars

(***************************************************************************)
(* Claims about the schema cache (CacheSpec).                              *)
(***************************************************************************)
\* Every call that has succeeded returned the record the cache holds.
SuccessfulCallsReturnCached ==
    \A t \in CacheThreads :
        cret[t].kind = "ok"
            => /\ cret[t].tableName \in DOMAIN PrimaryKeyCache
               /\ cret[t].pkInfo = PrimaryKeyCache[cret[t].tableName]

\* C15 as stated: every successful call returns the cached record, and
\* DescribeTable succeeds at most once for each table.
C15_DescribeTableSucceedsAtMostOnce ==
    /\ SuccessfulCallsReturnCached
    /\ \A n \in CacheTables : cstat.describes[n] <= 1

\* C15 as the code has it: every successful call returns the cached record,
\* and DescribeTable returns a schema with a HASH key at most once for each
\* table.
C15_TableInfoSucceedsAtMostOnce ==
    /\ SuccessfulCallsReturnCached
    /\ \A n \in CacheTables : cstat.infos[n] <= 1
    /\ \A t \in CacheThreads : cpc[t] \in {"TableInfo", "insert"} => rwlock.w = t

\* Two calls for one table both missed under the read lock; one described
\* the table and inserted, the other found the entry at the re-check.
C15_Witness ==
    \E t1, t2 \in CacheThreads :
        /\ cret[t1].kind = "ok" /\ cret[t1].via = "insert"
        /\ cret[t2].kind = "ok" /\ cret[t2].via = "recheck"
        /\ cret[t1].tableName = cret[t2].tableName

HasNoHash(ks) == \A i \in DOMAIN ks : ks[i].KeyType # "HASH"

\* The step of a thread that returns an error.
CacheFailure(t) == cpc[t] = "TableInfo" /\ cpc'[t] = "idle" /\ cret'[t].kind = "err"

\* C16: no step removes or replaces a cache entry; a call whose
\* DescribeTable fails or reports no HASH key returns an error and inserts
\* nothing, and every call that finds no entry describes the table: a call
\* returns an error only after its own DescribeTable, and a success only
\* with the table in the cache.
C16_CacheOnlyGrows ==
    /\ [](\A t \in CacheThreads :
            /\ cret[t].kind = "err"
                 => /\ cret[t].attempted
                    /\ cret[t].outcome.err \/ HasNoHash(cret[t].outcome.ks)
            /\ cret[t].kind = "ok" => cret[t].tableName \in DOMAIN PrimaryKeyCache
            /\ (cret[t].kind = "ok" /\ cret[t].attempted)
                 => ~cret[t].outcome.err /\ ~HasNoHash(cret[t].outcome.ks)
            /\ (cpc[t] = "insert")
                 => ~cop[t].outcome.err /\ ~HasNoHash(cop[t].outcome.ks))
    /\ [][/\ \A n \in DOMAIN PrimaryKeyCache :
                n \in DOMAIN PrimaryKeyCache' /\ PrimaryKeyCache'[n] = PrimaryKeyCache[n]
          /\ \A t \in CacheThreads : CacheFailure(t) => PrimaryKeyCache' = PrimaryKeyCache
          /\ \A t \in CacheThreads :
                (cpc[t] = "recheck" /\ cop[t].tableName \notin DOMAIN PrimaryKeyCache)
                    => cpc'[t] \in {"recheck", "TableInfo"}]_vars

\* A call failed at DescribeTable, and a later call for the same table
\* described it again and inserted the entry.
C16_Witness ==
    \E t1, t2 \in CacheThreads :
        /\ cret[t1].kind = "err"
        /\ HasNoHash(cret[t1].outcome.ks) /\ ~cret[t1].outcome.err
        /\ cret[t2].kind = "ok" /\ cret[t2].via = "insert"
        /\ cret[t1].tableName = cret[t2].tableName
        /\ cstat.describes[cret[t1].tableName] = 2

(***************************************************************************)
(* OpsSpec: one caller of GetItem, Query, Scan, BatchGetItem and           *)
(* BatchWriteItem over a store that may fail a call, may leave requests of *)
(* a batch unprocessed and returns the items of a read in any order; the   *)
(* adversary of PipeSpec overwrites wrapped keysets.                       *)
(***************************************************************************)
\* ConstructMaterialName returns an error for an item without its key
\* attributes.
ConstructMaterialNameOk(item, pkInfo) ==
    /\ pkInfo.PartitionKey \in DOMAIN item
    /\ pkInfo.SortKey # "" => pkInfo.SortKey \in DOMAIN item

\* One call of decryptItem: the schema, the material name, the decryption
\* materials of the latest version, the attribute loop.  calls lists what
\* was called on the way.  (The materials and the outcome are bound in a
\* set, which has them evaluated once.)
decryptItemCall(item, cache, ks, ms, aa) ==
    LET infoOk == getPrimaryKeyInfoOk(cache, ks)
        pkInfo == getPrimaryKeyInfo(cache, ks)
        nameOk == infoOk /\ ConstructMaterialNameOk(item, pkInfo)
        name == ConstructMaterialName(item, pkInfo)
        retrieved == nameOk /\ RetrieveOk(ms, name, 0)
        materials == IF retrieved THEN DecryptionMaterials(RetrieveMaterial(ms, name, 0))
                     ELSE NoMaterials
    IN CHOOSE result \in
          {[ok |-> ok,
            item |-> IF ok THEN decryptItem(item, pkInfo, aa, dm.key) ELSE NoItem,
            cache |-> CacheAfter(cache, ks),
            calls |-> <<"getPrimaryKeyInfo">>
                        \o (IF infoOk THEN <<"ConstructMaterialName">> ELSE <<>>)
                        \o (IF nameOk THEN <<"DecryptionMaterials">> ELSE <<>>)] :
              dm \in {materials},
              ok \in {materials.ok /\ ~decryptFails(item, pkInfo, aa, materials.key)}} :
          TRUE

\* What Query, Scan and BatchGetItem return of the items when decryptItem
\* fails: a nil output.
OutputPartial(decrypted, remaining) == decrypted \o remaining
OutputOnError(decrypted, remaining) == <<>>

\* The loop of Query, Scan and BatchGetItem over the items of the store's
\* output: each is replaced by its decrypted form; the first failure ends
\* the call.
RECURSIVE decryptItems(_, _, _, _, _, _, _)
decryptItems(remaining, decrypted, calls, cache, ks, ms, aa) ==
    IF remaining = <<>>
    THEN [ok |-> TRUE, items |-> decrypted, cache |-> cache, calls |-> calls]
    ELSE CHOOSE result \in
            {IF ~d.ok
             THEN [ok |-> FALSE, items |-> OutputOnError(decrypted, remaining),
                   cache |-> d.cache, calls |-> calls \o d.calls]
             ELSE decryptItems(Tail(remaining), Append(decrypted, d.item),
                               calls \o d.calls, d.cache, ks, ms, aa) :
                d \in {decryptItemCall(Head(remaining), cache, ks, ms, aa)}} : TRUE

\* GetItem's test of the store's output, encryptedOutput.Item == nil.
ItemFoundAlways(stored) == TRUE
ItemFound(stored) == stored # NoItem

\* The orders in which the store may return the items of a set of keys.
Orders(keys) ==
    {o \in [1..Cardinality(keys) -> keys] : \A i, j \in DOMAIN o : o[i] = o[j] => i = j}

OpsFrame ==
    /\ UNCHANGED <<keySchema, actions, probe>>
    /\ UNCHANGED <<obs, plain, signedAt>>
    /\ UNCHANGED <<specVars, serde, cacheVars, pager, keyVars>>

\* EncryptedClient.GetItem.
OGetItem(keyItem, storeErr) ==
    LET key == StoreKey(keyItem, keySchema)
        found == key \in DOMAIN table
        stored == IF found /\ ~storeErr THEN table[key] ELSE NoItem
        d == decryptItemCall(stored, PrimaryKeyCache, keySchema, matStore, actions)
    IN /\ steps < MaxPipeSteps
       /\ steps' = steps + 1
       /\ IF storeErr \/ ~ItemFound(stored)
          THEN /\ ret' = [NoRet EXCEPT !.kind = "get", !.at = steps', !.found = found,
                                       !.storeOutput.err = storeErr,
                                       !.calls = <<"GetItem">>]
               /\ UNCHANGED PrimaryKeyCache
          ELSE /\ ret' = [NoRet EXCEPT !.kind = "get", !.at = steps', !.found = found,
                                       !.ok = d.ok,
                                       !.raw = <<stored>>,
                                       !.items = IF d.ok THEN <<d.item>> ELSE <<>>,
                                       !.calls = <<"GetItem">> \o d.calls]
               /\ PrimaryKeyCache' = d.cache
       /\ UNCHANGED <<table, matStore, fresh>>
       /\ OpsFrame

\* Query, Scan and BatchGetItem after the store's call: the store's error,
\* else the loop over the items the store returned.
ReadItems(kind, raw, storeErr) ==
    LET d == decryptItems(raw, <<>>, <<>>, PrimaryKeyCache, keySchema, matStore, actions)
    IN /\ steps < MaxPipeSteps
       /\ steps' = steps + 1
       /\ IF storeErr
          THEN /\ ret' = [NoRet EXCEPT !.kind = kind, !.at = steps',
                                       !.storeOutput.err = TRUE, !.calls = <<kind>>]
               /\ UNCHANGED PrimaryKeyCache
          ELSE /\ ret' = [NoRet EXCEPT !.kind = kind, !.at = steps', !.found = TRUE,
                                       !.ok = d.ok,
                                       !.raw = raw, !.items = d.items,
                                       !.calls = <<kind>> \o d.calls]
               /\ PrimaryKeyCache' = d.cache
       /\ UNCHANGED <<table, matStore, fresh>>
       /\ OpsFrame

\* EncryptedClient.Query for one partition key.
OQuery(pk, order, storeErr) ==
    /\ order \in Orders({k \in DOMAIN table : k[1] = pk})
    /\ ReadItems("Query", [i \in DOMAIN order |-> table[order[i]]], storeErr)

\* EncryptedClient.Scan.
OScan(order, storeErr) ==
    /\ order \in Orders(DOMAIN table)
    /\ ReadItems("Scan", [i \in DOMAIN order |-> table[order[i]]], storeErr)

\* EncryptedClient.BatchGetItem for a set of keys.
OBatchGetItem(keyItems, order, storeErr) ==
    /\ order \in Orders({k \in DOMAIN table :
                            \E keyItem \in keyItems : k = StoreKey(keyItem, keySchema)})
    /\ ReadItems("BatchGetItem", [i \in DOMAIN order |-> table[order[i]]], storeErr)

\* The requests of reqs at the indices in at, in order.
RECURSIVE Pick(_, _, _)
Pick(reqs, at, i) ==
    IF i > Len(reqs) THEN <<>>
    ELSE (IF i \in at THEN <<reqs[i]>> ELSE <<>>) \o Pick(reqs, at, i + 1)

OpsBatches ==
    {<<PutReq(Item("a", probe, FALSE, keySchema))>>,
     <<PutReq(Item("a", probe, FALSE, keySchema)),
       PutReq(Item("b", probe, TRUE, keySchema))>>,
     <<PutReq(Item("b", probe, FALSE, keySchema)), DelReq(KeyItem("a", keySchema))>>,
     <<DelReq(KeyItem("a", keySchema))>>}

\* EncryptedClient.BatchWriteItem.  failAt is the put request whose
\* materials the material store fails to put (0: none); the store fails the
\* batch (storeErr) or leaves the requests at unprocessed undone.
OBatchWriteItem(reqs, failAt, storeErr, unprocessed) ==
    LET pkInfo == getPrimaryKeyInfo(PrimaryKeyCache, keySchema)
        attempted == IF failAt = 0 THEN reqs ELSE SubSeq(reqs, 1, failAt - 1)
        e == EncryptRequests(attempted, matStore, fresh, pkInfo, actions)
        encrypted == failAt = 0 /\ e.ok
        storeOutput == [err |-> storeErr,
                        UnprocessedItems |-> IF storeErr THEN <<>>
                                             ELSE Pick(e.out, unprocessed, 1)]
    IN /\ steps < MaxPipeSteps
       /\ steps' = steps + 1
       /\ failAt # 0 => (reqs[failAt].put /\ ~storeErr /\ unprocessed = {})
       /\ storeErr => unprocessed = {}
       /\ PrimaryKeyCache' =
             IF \E i \in DOMAIN reqs : reqs[i].put
             THEN CacheAfter(PrimaryKeyCache, keySchema) ELSE PrimaryKeyCache
       /\ fresh' = IF failAt = 0 THEN e.fr ELSE e.fr + 1
       /\ matStore' = e.ms
       /\ table' = IF encrypted /\ ~storeErr
                   THEN ApplyRequests(table, Pick(e.out, DOMAIN reqs \ unprocessed, 1),
                                      keySchema)
                   ELSE table
       /\ ret' = [NoRet EXCEPT !.kind = "BatchWriteItem", !.at = steps', !.reqs = reqs,
                               !.encrypted = encrypted, !.submitted = encrypted,
                               !.ok = encrypted /\ ~storeErr,
                               !.sent = IF encrypted THEN e.out ELSE <<>>,
                               !.storeOutput = IF encrypted THEN storeOutput
                                               ELSE NoStoreOutput,
                               !.output = IF encrypted THEN storeOutput
                                          ELSE NoStoreOutput,
                               !.calls = IF encrypted THEN <<"BatchWriteItem">> ELSE <<>>]
       /\ OpsFrame

OpsNext ==
    \/ \E reqs \in OpsBatches : \E failAt \in {0} \cup DOMAIN reqs :
         \E storeErr \in BOOLEAN : \E unprocessed \in SUBSET DOMAIN reqs :
            OBatchWriteItem(reqs, failAt, storeErr, unprocessed)
    \/ \E k \in KeyItems : \E storeErr \in BOOLEAN : OGetItem(k, storeErr)
    \/ \E pk \in PKVals : \E order \in Orders({k \in DOMAIN table : k[1] = pk}) :
         \E storeErr \in BOOLEAN : OQuery(pk, order, storeErr)
    \/ \E order \in Orders(DOMAIN table) : \E storeErr \in BOOLEAN : OScan(order, storeErr)
    \/ \E keyItems \in SUBSET KeyItems \ {{}} :
         \E order \in Orders({k \in DOMAIN table :
                                 \E keyItem \in keyItems : k = StoreKey(keyItem, keySchema)}) :
            \E storeErr \in BOOLEAN : OBatchGetItem(keyItems, order, storeErr)
    \/ \E k \in DOMAIN matStore : \E w \in TamperedKeysets(k) : TamperWrappedKeyset(k, w)

OpsSpec == Init /\ [][OpsNext]_vars

(***************************************************************************)
(* Claims about the read operations and BatchWriteItem (OpsSpec).          *)
(***************************************************************************)
\* What decryptItem makes of one stored item in the current state.
Decrypted(item) ==
    decryptItemCall(item, PrimaryKeyCache, keySchema, matStore, actions)

\* C18: Query, Scan and BatchGetItem return either every item of the store's
\* output decrypted, or an error and no item at all; they return an error
\* exactly when the store's call or the decryption of one item fails.  (The
\* state is the one the call returned in: no step has followed it.)
C18_ReadsAllOrNothing ==
    (ret.kind \in {"Query", "Scan", "BatchGetItem"} /\ ret.at = steps)
        => IF ~ret.storeOutput.err /\ \A i \in DOMAIN ret.raw : Decrypted(ret.raw[i]).ok
           THEN /\ ret.ok
                /\ ret.items = [i \in DOMAIN ret.raw |-> Decrypted(ret.raw[i]).item]
           ELSE /\ ~ret.ok
                /\ ret.items = <<>>

\* A Scan found two items; the first decrypts, the second does not, and the
\* call has returned.
C18_Witness ==
    /\ ret.kind = "Scan"
    /\ ret.at = steps
    /\ Len(ret.raw) = 2
    /\ Decrypted(ret.raw[1]).ok
    /\ ~Decrypted(ret.raw[2]).ok

\* C19: a GetItem for a key the store holds no item for returns an error and
\* no output, calls nothing but the store's GetItem, and leaves the schema
\* cache and the material store as they were.
C19_GetItemNotFound ==
    /\ []((ret.kind = "get" /\ ~ret.found /\ ~ret.storeOutput.err)
            => /\ ~ret.ok
               /\ ret.items = <<>>
               /\ ret.calls = <<"GetItem">>)
    /\ [][(ret'.kind = "get" /\ ret'.at = steps' /\ steps' # steps /\ ~ret'.found)
            => /\ PrimaryKeyCache' = PrimaryKeyCache
               /\ matStore' = matStore]_vars

\* A GetItem has found no item, on a client that has not described the
\* table.
C19_Witness ==
    /\ ret.kind = "get"
    /\ ret.at = steps
    /\ ~ret.found
    /\ ~ret.storeOutput.err
    /\ DOMAIN PrimaryKeyCache = {}

\* An item is the encrypted form of another under some materials made so far.
IsEncryptedFormOf(encryptedItem, item) ==
    \E k \in 1..(fresh - 1) :
        encryptedItem = encryptItem(item, TableInfo(keySchema), actions, k, k)

\* C20: BatchWriteItem submits the batch exactly when every put item was
\* encrypted; the batch submitted holds every put request with its item
\* encrypted and every delete request as given; the store's output, with its
\* unprocessed items, is returned as it is; when a put item is not
\* encrypted nothing is submitted and the table stays as it was.
C20_BatchWriteItemFrame ==
    /\ [](ret.kind = "BatchWriteItem"
            => /\ ret.submitted <=> ret.encrypted
               /\ ret.submitted
                    => /\ Len(ret.sent) = Len(ret.reqs)
                       /\ \A i \in DOMAIN ret.reqs :
                            IF ret.reqs[i].put
                            THEN /\ ret.sent[i].put
                                 /\ IsEncryptedFormOf(ret.sent[i].item, ret.reqs[i].item)
                            ELSE ret.sent[i] = ret.reqs[i]
                       /\ ret.output = ret.storeOutput
                       /\ ret.calls = <<"BatchWriteItem">>
               /\ ~ret.submitted
                    => /\ ~ret.ok
                       /\ ret.sent = <<>>
                       /\ ret.calls = <<>>)
    /\ [][(ret'.kind = "BatchWriteItem" /\ ret'.at = steps' /\ steps' # steps
             /\ ~ret'.submitted)
            => table' = table]_vars

\* A batch of a put and a delete was submitted, and the store left a request
\* unprocessed.
C20_Witness ==
    /\ ret.kind = "BatchWriteItem"
    /\ ret.submitted
    /\ \E i, j \in DOMAIN ret.reqs : ret.reqs[i].put /\ ~ret.reqs[j].put
    /\ ret.output.UnprocessedItems # <<>>

(***************************************************************************)
(* PagerSpec: one EncryptedPaginator, whose Query and Scan calls are cut   *)
(* at every fetch of a page and every callback.  The store returns the     *)
(* items after the start key in key order, one to a page, and may report a *)
(* LastEvaluatedKey with the last item, in which case an empty page        *)
(* follows.  Batches are written and wrapped keysets overwritten while the *)
(* paginator runs.                                                         *)
(***************************************************************************)
\* The store's order of primary keys; no key comes before all.
KeyRank(k) == IF k = NoKey THEN 0 ELSE IF k[1] = "a" THEN 1 ELSE 2

\* The keys the store has yet to return to a request.
Remaining(kind, pk, startKey) ==
    {k \in DOMAIN table :
        /\ kind = "Query" => k[1] = pk
        /\ KeyRank(k) > KeyRank(startKey)}

FirstKey(keys) == CHOOSE k \in keys : \A k2 \in keys : KeyRank(k) <= KeyRank(k2)

\* lastPage := len(output.LastEvaluatedKey) == 0
LastPageAlways(LastEvaluatedKey) == TRUE
LastPage(LastEvaluatedKey) == LastEvaluatedKey = NoKey

\* if p.NextToken != nil { input.ExclusiveStartKey = p.NextToken }
StartKey(NextToken, ExclusiveStartKey) ==
    IF NextToken # NoKey THEN NextToken ELSE ExclusiveStartKey

PagerEvent(e, startKey, ok, lek, lastPage, cont) ==
    [e |-> e, ExclusiveStartKey |-> startKey, ok |-> ok, LastEvaluatedKey |-> lek,
     lastPage |-> lastPage, cont |-> cont]

PagerFrame ==
    /\ UNCHANGED <<clientVars, pipeVars, specVars, serde, cacheVars, ret, keyVars>>

\* EncryptedPaginator.Query or Scan is called with the caller's input.
PagerCall(kind, pk, startKey) ==
    /\ pager.pc = "idle"
    /\ steps < MaxPipeSteps
    /\ steps' = steps + 1
    /\ pager' = [pager EXCEPT !.pc = "fetch", !.kind = kind, !.pk = pk,
                              !.given = startKey,
                              !.ExclusiveStartKey = startKey,
                              !.LastEvaluatedKey = NoKey, !.lastPage = FALSE,
                              !.log = <<>>, !.returned = "none"]
    /\ UNCHANGED <<keySchema, actions, probe, table, matStore, fresh, PrimaryKeyCache>>
    /\ UNCHANGED <<obs, plain, signedAt>>
    /\ UNCHANGED <<specVars, serde, cacheVars, ret, keyVars>>

\* The loop's head: the start key, then p.Client.Query or Scan, which is the
\* store's call and the decryption of the page's items.
PagerFetch(storeErr, reportKey) ==
    LET startKey == StartKey(pager.NextToken, pager.ExclusiveStartKey)
        rest == Remaining(pager.kind, pager.pk, startKey)
        key == IF rest = {} THEN NoKey ELSE FirstKey(rest)
        raw == IF rest = {} THEN <<>> ELSE <<table[key]>>
        lek == IF rest = {} THEN NoKey
               ELSE IF rest # {key} \/ reportKey THEN key ELSE NoKey
    IN /\ pager.pc = "fetch"
       /\ \E d \in {decryptItems(raw, <<>>, <<>>, PrimaryKeyCache, keySchema, matStore,
                                 actions)} :
            /\ IF storeErr \/ ~d.ok
               THEN pager' = [pager EXCEPT
                                 !.pc = "idle", !.returned = "err",
                                 !.ExclusiveStartKey = startKey,
                                 !.log = Append(@, PagerEvent("fetch", startKey, FALSE,
                                                              NoKey, FALSE, FALSE))]
               ELSE pager' = [pager EXCEPT
                                 !.pc = "fn", !.ExclusiveStartKey = startKey,
                                 !.LastEvaluatedKey = lek, !.lastPage = LastPage(lek),
                                 !.log = Append(@, PagerEvent("fetch", startKey, TRUE, lek,
                                                              FALSE, FALSE))]
            /\ PrimaryKeyCache' = IF storeErr THEN PrimaryKeyCache ELSE d.cache
       /\ PagerFrame

\* The callback and what follows it: break when it returns false, break on
\* the last page, else keep the page's LastEvaluatedKey as NextToken.
PagerCallback(cont) ==
    /\ pager.pc = "fn"
    /\ pager' = [pager EXCEPT
                    !.pc = IF cont /\ ~pager.lastPage THEN "fetch" ELSE "idle",
                    !.returned = IF cont /\ ~pager.lastPage THEN "none" ELSE "nil",
                    !.NextToken = IF cont /\ ~pager.lastPage
                                  THEN pager.LastEvaluatedKey ELSE @,
                    !.log = Append(@, PagerEvent("fn", NoKey, TRUE, NoKey,
                                                 pager.lastPage, cont))]
    /\ UNCHANGED PrimaryKeyCache
    /\ PagerFrame

\* The steps of a running call.
PagerRun ==
    \/ \E storeErr, reportKey \in BOOLEAN : PagerFetch(storeErr, reportKey)
    \/ \E cont \in BOOLEAN : PagerCallback(cont)

PagerNext ==
    \/ \E reqs \in OpsBatches : OBatchWriteItem(reqs, 0, FALSE, {})
    \/ \E k \in DOMAIN matStore : \E w \in TamperedKeysets(k) : TamperWrappedKeyset(k, w)
    \/ \E kind \in {"Query", "Scan"} : \E pk \in PKVals :
         \E startKey \in {NoKey, StoreKey(KeyItem("a", keySchema), keySchema)} :
            PagerCall(kind, pk, startKey)
    \/ PagerRun

\* A running call takes its next step: its goroutine runs, the store answers
\* and the callback returns.
PagerSpec == Init /\ [][PagerNext]_vars /\ WF_vars(PagerRun)

(***************************************************************************)
(* Claim about the paginator (PagerSpec).                                  *)
(***************************************************************************)
\* The log of the running or last call: fetches and callbacks alternate; a
\* fetch after the first sends the LastEvaluatedKey of the page before it; a
\* callback follows a fetched page and has lastPage exactly when the page's
\* LastEvaluatedKey is empty; nothing follows a failed fetch, a last page or
\* a callback that returned false; and a call that has returned ended on one
\* of these.
PagerLogInOrder ==
    LET L == pager.log
    IN /\ \A i \in DOMAIN L : L[i].e = IF i % 2 = 1 THEN "fetch" ELSE "fn"
       /\ \A i \in DOMAIN L :
            (L[i].e = "fetch" /\ i > 1)
                => /\ L[i - 2].LastEvaluatedKey # NoKey
                   /\ L[i].ExclusiveStartKey = L[i - 2].LastEvaluatedKey
       /\ \A i \in DOMAIN L :
            L[i].e = "fn"
                => /\ L[i - 1].ok
                   /\ L[i].lastPage <=> (L[i - 1].LastEvaluatedKey = NoKey)
       /\ \A i \in DOMAIN L :
            i < Len(L)
                => /\ L[i].e = "fetch" => L[i].ok
                   /\ L[i].e = "fn" => (L[i].cont /\ ~L[i].lastPage)
       /\ pager.pc = "fetch" => (L = <<>> \/ L[Len(L)].e = "fn")
       /\ pager.pc = "fn" => (L # <<>> /\ L[Len(L)].e = "fetch" /\ L[Len(L)].ok)
       /\ (pager.pc = "idle" /\ pager.returned = "err")
            => (L # <<>> /\ L[Len(L)].e = "fetch" /\ ~L[Len(L)].ok)
       /\ (pager.pc = "idle" /\ pager.returned = "nil")
            => (L # <<>> /\ L[Len(L)].e = "fn"
                  /\ (L[Len(L)].lastPage \/ ~L[Len(L)].cont))
       /\ (L # <<>> /\ L[Len(L)].e = "fn" /\ (L[Len(L)].lastPage \/ ~L[Len(L)].cont))
            => pager.pc = "idle"

\* C17: a paginator call fetches and calls back in the order above, and a
\* running call returns.
C17_PaginatorPagesInOrder ==
    /\ []PagerLogInOrder
    /\ (pager.pc # "idle") ~> (pager.pc = "idle")

\* A call has fetched two pages with items, sent the first page's
\* LastEvaluatedKey for the second, and returned after the last page.
C17_Witness ==
    /\ pager.pc = "idle"
    /\ pager.returned = "nil"
    /\ Len(pager.log) >= 4
    /\ pager.log[Len(pager.log)].lastPage
    /\ pager.log[3].ExclusiveStartKey # NoKey

\* C30: the first fetch of every paginator call sends the ExclusiveStartKey
\* the caller gave in that call's input (none for the first page), whatever
\* earlier calls on the paginator did, and in a call that returned after the
\* last page every later fetch sent the LastEvaluatedKey of the page before.
C30_CallStartsAtGivenKey ==
    /\ pager.log # <<>> => pager.log[1].ExclusiveStartKey = pager.given
    /\ (pager.pc = "idle" /\ pager.returned = "nil" /\ pager.lastPage)
          => \A i \in DOMAIN pager.log :
                pager.log[i].e = "fetch"
                   => pager.log[i].ExclusiveStartKey
                        = IF i = 1 THEN pager.given
                          ELSE pager.log[i - 2].LastEvaluatedKey

(***************************************************************************)
(* ReadSpec: the threads of Spec also call GetItem, cut at its store       *)
(* calls like the other handlers, and the client's default action is       *)
(* Encrypt or DoNothing.                                                   *)
(***************************************************************************)
ReadConfigs ==
    {[defaultAction |-> d, attributeActions |-> {}] : d \in {"Encrypt", "DoNothing"}}

ReadInit ==
    /\ keySchema \in Schemas
    /\ actions \in ReadConfigs
    /\ probe = AvS("x")
    /\ table = [k \in {} |-> NoItem]
    /\ matStore = [k \in {} |-> MaterialDescription(0)]
    /\ PrimaryKeyCache = [t \in {} |-> TableInfo(<<>>)]
    /\ fresh = 1
    /\ steps = 0
    /\ obs = NoObs
    /\ plain = [k \in {} |-> NoItem]
    /\ signedAt = [k \in {} |-> EncodeToString(WrapKeyset(0, KeyID))]
    /\ SpecVarsInit
    /\ AuxVarsInit

ReadFrame ==
    /\ UNCHANGED <<keySchema, actions, probe, table, matStore, fresh, fails, race>>
    /\ UNCHANGED <<pipeVars, serde, cacheVars, pager, keyVars>>

\* EncryptedClient.GetItem is called.
GetItem(t, keyItem) ==
    /\ pc[t] = "idle" /\ nops < MaxOps
    /\ nops' = nops + 1
    /\ pc' = [pc EXCEPT ![t] = "get_item"]
    /\ op' = [op EXCEPT ![t] = [NoOp EXCEPT !.kind = "GetItem", !.keyItem = keyItem]]
    /\ seq' = [seq EXCEPT !.mode = "dirty"]
    /\ UNCHANGED <<PrimaryKeyCache, last, ret>>
    /\ ReadFrame

\* GetItem's first call, the store's GetItem: "item not found" when the
\* output has no item, else the item goes to decryptItem.
GetItemStore(t) ==
    LET key == StoreKey(op[t].keyItem, keySchema)
        stored == IF key \in DOMAIN table THEN table[key] ELSE NoItem
    IN /\ pc[t] = "get_item"
       /\ IF ~ItemFound(stored)
          THEN /\ Finish(t, op[t], FALSE, matStore)
               /\ ret' = [NoRet EXCEPT !.kind = "get", !.at = t,
                                       !.calls = <<"GetItem">>]
          ELSE /\ pc' = [pc EXCEPT ![t] = "get_version"]
               /\ op' = [op EXCEPT ![t].reqs = <<PutReq(stored)>>]
               /\ UNCHANGED <<last, seq, ret>>
       /\ UNCHANGED <<PrimaryKeyCache, nops>>
       /\ ReadFrame

\* decryptItem up to RetrieveMaterial's getLastVersion: the schema, the
\* material name, and the Query for the last version.
GetItemVersion(t) ==
    LET pkInfo == getPrimaryKeyInfo(PrimaryKeyCache, keySchema)
        name == ConstructMaterialName(op[t].reqs[1].item, pkInfo)
    IN /\ pc[t] = "get_version"
       /\ pc' = [pc EXCEPT ![t] = "get_material"]
       /\ op' = [op EXCEPT ![t].name = name,
                           ![t].readVer = RetrieveVersion(matStore, name, 0)]
       /\ PrimaryKeyCache' = CacheAfter(PrimaryKeyCache, keySchema)
       /\ UNCHANGED <<last, nops, seq, ret>>
       /\ ReadFrame

\* RetrieveMaterial's GetItem of the version read, then the rest of
\* DecryptionMaterials and decryptItem's loop over the attributes.
GetItemMaterial(t) ==
    LET o == op[t]
        stored == o.reqs[1].item
        pkInfo == getPrimaryKeyInfo(PrimaryKeyCache, keySchema)
        retrieved == RetrieveOk(matStore, o.name, o.readVer)
        materials == IF retrieved
                     THEN DecryptionMaterials(RetrieveMaterial(matStore, o.name, o.readVer))
                     ELSE NoMaterials
        ok == materials.ok /\ ~decryptFails(stored, pkInfo, actions, materials.key)
    IN /\ pc[t] = "get_material"
       /\ Finish(t, o, ok, matStore)
       /\ ret' = [NoRet EXCEPT !.kind = "get", !.at = t, !.found = TRUE, !.ok = ok,
                     !.raw = <<stored>>,
                     !.items = IF ok THEN <<decryptItem(stored, pkInfo, actions,
                                                        materials.key)>>
                               ELSE <<>>,
                     !.calls = <<"GetItem", "getPrimaryKeyInfo", "ConstructMaterialName",
                                 "DecryptionMaterials">>]
       /\ UNCHANGED <<PrimaryKeyCache, nops>>
       /\ ReadFrame

ReadNext ==
    \/ Next
    \/ \E t \in Threads : \E k \in KeyItems : GetItem(t, k)
    \/ \E t \in Threads : GetItemStore(t)
    \/ \E t \in Threads : GetItemVersion(t)
    \/ \E t \in Threads : GetItemMaterial(t)

ReadSpec == ReadInit /\ [][ReadNext]_vars


(***************************************************************************)
(* Claims about reads next to concurrent writes (ReadSpec).                *)
(***************************************************************************)
\* The attributes decryptItem is to hand back as stored.
PassedThrough(item, pkInfo, aa) ==
    {k \in DOMAIN item :
        \/ IsKeyAttr(pkInfo, k)
        \/ item[k].t # "B"
        \/ GetAttributeAction(aa, k) = "DoNothing"}

\* C21: a GetItem that decrypts returns the key attributes, the non-binary
\* attributes and the DoNothing attributes of the stored item with their
\* stored values, and a GetItem that found a stored item without a binary
\* non-key attribute returns that item as stored.
C21_PassThroughOnDecrypt ==
    (ret.kind = "get" /\ ret.found)
        => LET stored == ret.raw[1]
               pkInfo == TableInfo(keySchema)
           IN /\ ret.ok
                   => \A k \in PassedThrough(stored, pkInfo, actions) :
                         /\ k \in DOMAIN ret.items[1]
                         /\ ret.items[1][k] = stored[k]
              /\ (\A k \in DOMAIN stored : IsKeyAttr(pkInfo, k) \/ stored[k].t # "B")
                   => (ret.ok /\ ret.items = <<stored>>)


\* What GetItem on the stored item under key comes to in this state: the
\* latest material version under the item's name is there, yields a key, and
\* the key opens every encrypted attribute.
LatestVersionOpens(key) ==
    LET pkInfo == TableInfo(keySchema)
        name == ConstructMaterialName(table[key], pkInfo)
        materials == IF RetrieveOk(matStore, name, 0)
                     THEN DecryptionMaterials(RetrieveMaterial(matStore, name, 0))
                     ELSE NoMaterials
    IN /\ materials.ok
       /\ ~decryptFails(table[key], pkInfo, actions, materials.key)

\* C25: whenever no call is in progress, the latest material version under
\* the name of every item in the table holds the key that encrypted the
\* stored item, so that GetItem on the item succeeds.
C25_LatestVersionDecryptsStoredItem ==
    (\A t \in Threads : pc[t] = "idle")
        => \A key \in DOMAIN table : LatestVersionOpens(key)


\* The material name of the logical item with partition-key value pk (and
\* the sort-key value of the table's items, when the table has a sort key),
\* from the table name and the key values alone.
NameOfTriple(tableName, pk, sk) ==
    HashString(tableName \o "-" \o pk \o (IF sk # "" THEN "-" \o sk ELSE ""))

NameOfLogicalItem(pk) ==
    NameOfTriple(TableName, pk, IF HasRange(keySchema) THEN SKVal ELSE "")

PutRecordStored(o, ms) ==
    /\ <<o.name, NewVersion(o.readVer)>> \in DOMAIN ms
    /\ ms[<<o.name, NewVersion(o.readVer)>>] = MaterialDescription(o.key)

\* C26: a PutItem comes to the store's PutItem only by the step that stores
\* its material record; a PutItem whose schema lookup, key generation,
\* version Query or StoreNewMaterial fails returns an error in a step that
\* leaves the table as it is; and no step of a PutItem other than the
\* store's PutItem changes the table.
C26_ItemWrittenOnlyAfterMaterialStored ==
    [][\A t \in Threads :
          (op[t].kind = "PutItem" /\ pc'[t] # pc[t])
             => /\ pc'[t] = "store" => (pc[t] = "write" /\ PutRecordStored(op'[t], matStore'))
                /\ pc[t] # "store"
                     => /\ table' = table
                        /\ pc'[t] = "idle" => (last'[t].kind = "PutItem" /\ ~last'[t].ok)
                /\ (pc[t] = "store" /\ last'[t].ok)
                     => table' = ApplyRequests(table, op[t].reqs, keySchema)]_vars

\* One PutItem has returned an error from StoreNewMaterial and another has
\* written its item.
C26_Witness ==
    \E t, u \in Threads :
        /\ last[t].kind = "PutItem" /\ ~last[t].ok /\ last[t].failedAt = "write"
        /\ last[u].kind = "PutItem" /\ last[u].ok
        /\ DOMAIN table # {}

(***************************************************************************)
(* KeySpec: two threads call Encrypt, Decrypt and Sign on shared delegated *)
(* keys, whose primitives sit behind sync.Once guards, build raw materials *)
(* from the keys and call the accessors of wrapped materials.  A panic     *)
(* that nothing recovers ends the program.                                 *)
(***************************************************************************)
MaxKeyCalls == 3

KeyMethods == {"Encrypt", "Decrypt", "Sign"}

\* aead.New and signature.NewSigner over a keyset handle: the primitive, or
\* an error when the keyset's key type does not give one.
aeadNewOk(kh) == kh = "AesGcmKey"
NewSignerOk(kh) == kh = "EcdsaPrivateKey"

\* The guard and the field a method goes through.
UsesSigner(method) == method = "Sign"

OnceOf(key, method) == IF UsesSigner(method) THEN key.signerOnce ELSE key.aeadOnce

PrimitiveOf(key, method) ==
    IF UsesSigner(method) THEN key.signerPrimitive ELSE key.aeadPrimitive

WithOnce(key, method, once) ==
    IF UsesSigner(method) THEN [key EXCEPT !.signerOnce = once]
    ELSE [key EXCEPT !.aeadOnce = once]

WithPrimitive(key, method, primitive) ==
    IF UsesSigner(method) THEN [key EXCEPT !.signerPrimitive = primitive]
    ELSE [key EXCEPT !.aeadPrimitive = primitive]

\* TinkDelegatedKey.AllowedForRawMaterials.
AllowedForRawMaterials(key) == TRUE

\* The accessors of EncryptionMaterials and DecryptionMaterials that return
\* a field; the others panic.
MaterialsKinds == {"EncryptionMaterials", "DecryptionMaterials"}

Accessors ==
    {"MaterialDescription", "EncryptionKey", "DecryptionKey", "SigningKey",
     "VerificationKey"}

AccessorsOf(materials) ==
    IF materials = "EncryptionMaterials" THEN Accessors
    ELSE Accessors \ {"VerificationKey"}

AccessorReturns(materials, accessor) ==
    IF materials = "EncryptionMaterials"
    THEN accessor \in {"MaterialDescription", "EncryptionKey", "SigningKey"}
    ELSE accessor \in {"MaterialDescription", "DecryptionKey"}

KeyRunning == \A t \in KeyThreads : dk.kpc[t] # "panic"

KeyFrame ==
    UNCHANGED <<clientVars, PrimaryKeyCache, pipeVars, specVars, serde, cacheVars, opsVars>>

\* Encrypt, Decrypt or Sign is called on the key over keyset kh.
KeyCall(t, kh, method) ==
    /\ KeyRunning
    /\ dk.kpc[t] = "idle" /\ dk.n < MaxKeyCalls
    /\ dk' = [dk EXCEPT !.n = dk.n + 1,
                        !.kpc[t] = "do",
                        !.kop[t] = [method |-> method, key |-> kh, err |-> FALSE]]
    /\ KeyFrame

\* getAEADPrimitive / getSignerPrimitive reach once.Do with the local err
\* nil: a guard that is done returns at once; else the caller takes the
\* guard's mutex, which waits while another caller holds it.
OnceDo(t) ==
    LET o == dk.kop[t]
        once == OnceOf(dk.key[o.key], o.method)
    IN /\ KeyRunning
       /\ dk.kpc[t] = "do"
       /\ IF once.done
          THEN dk' = [dk EXCEPT !.kpc[t] = "ret"]
          ELSE /\ once.m = 0
               /\ dk' = [dk EXCEPT !.kpc[t] = "f",
                                   !.key[o.key] = WithOnce(dk.key[o.key], o.method,
                                                           [once EXCEPT !.m = t])]
       /\ KeyFrame

\* The function once.Do runs: the primitive and err are assigned from
\* aead.New / signature.NewSigner, then the guard is done and its mutex free.
OnceF(t) ==
    LET o == dk.kop[t]
        ok == IF UsesSigner(o.method) THEN NewSignerOk(dk.key[o.key].keysetHandle)
              ELSE aeadNewOk(dk.key[o.key].keysetHandle)
    IN /\ KeyRunning
       /\ dk.kpc[t] = "f"
       /\ dk' = [dk EXCEPT !.kpc[t] = "ret",
                           !.kop[t].err = ~ok,
                           !.key[o.key] =
                               WithOnce(WithPrimitive(dk.key[o.key], o.method,
                                                      IF ok THEN "primitive" ELSE "nil"),
                                        o.method, [done |-> TRUE, m |-> 0])]
       /\ KeyFrame

\* The getter returns the field and the local err; Encrypt, Decrypt and Sign
\* return the error when err is set and else call the primitive, which
\* panics on a nil one.
KeyReturn(t) ==
    LET o == dk.kop[t]
        outcome == IF o.err THEN "err"
                   ELSE IF PrimitiveOf(dk.key[o.key], o.method) = "nil" THEN "panic"
                   ELSE "ok"
    IN /\ KeyRunning
       /\ dk.kpc[t] = "ret"
       /\ dk' = [dk EXCEPT !.kpc[t] = IF outcome = "panic" THEN "panic" ELSE "idle",
                           !.kop[t] = NoKop,
                           !.kret[t] = [NoKret EXCEPT !.op = o.method, !.key = o.key,
                                                      !.outcome = outcome]]
       /\ KeyFrame

\* NewRawEncryptionMaterials(signingKey, encryptionKey, ...) and
\* NewRawDecryptionMaterials(verificationKey, decryptionKey, ...): an error
\* when the second key is not nil and not allowed for raw materials.
NewRawMaterials(t, ctor, signer, kh) ==
    /\ KeyRunning
    /\ dk.kpc[t] = "idle" /\ dk.n < MaxKeyCalls
    /\ dk' = [dk EXCEPT !.n = dk.n + 1,
                        !.kret[t] =
                            [NoKret EXCEPT !.op = ctor, !.key = kh, !.signer = signer,
                                !.outcome =
                                    IF kh # "nil" /\ ~AllowedForRawMaterials(dk.key[kh])
                                    THEN "err" ELSE "ok"]]
    /\ KeyFrame

\* An accessor of EncryptionMaterials or DecryptionMaterials is called.
MaterialsCall(t, materials, accessor) ==
    /\ KeyRunning
    /\ dk.kpc[t] = "idle" /\ dk.n < MaxKeyCalls
    /\ dk' = [dk EXCEPT !.n = dk.n + 1,
                        !.kpc[t] = IF AccessorReturns(materials, accessor) THEN "idle"
                                   ELSE "panic",
                        !.kret[t] =
                            [NoKret EXCEPT !.op = accessor, !.materials = materials,
                                !.outcome = IF AccessorReturns(materials, accessor)
                                            THEN "ok" ELSE "panic"]]
    /\ KeyFrame

KeyNext ==
    \/ \E t \in KeyThreads : \E kh \in KeyKinds : \E method \in KeyMethods :
          KeyCall(t, kh, method)
    \/ \E t \in KeyThreads : OnceDo(t)
    \/ \E t \in KeyThreads : OnceF(t)
    \/ \E t \in KeyThreads : KeyReturn(t)
    \/ \E t \in KeyThreads :
          \E ctor \in {"NewRawEncryptionMaterials", "NewRawDecryptionMaterials"} :
             \E signer \in KeyKinds \cup {"nil"} : \E kh \in KeyKinds \cup {"nil"} :
                NewRawMaterials(t, ctor, signer, kh)
    \/ \E t \in KeyThreads : \E materials \in MaterialsKinds :
          \E accessor \in AccessorsOf(materials) : MaterialsCall(t, materials, accessor)

KeySpec == Init /\ [][KeyNext]_vars

(***************************************************************************)
(* Claims about delegated keys and materials (KeySpec).                    *)
(***************************************************************************)
\* C22: DecryptionKey() on encryption materials and EncryptionKey() on
\* decryption materials come back to the caller with an error; they do not
\* panic.
C22_WrongSideAccessorReturnsError ==
    \A t \in KeyThreads :
        (\/ dk.kret[t].materials = "EncryptionMaterials" /\ dk.kret[t].op = "DecryptionKey"
         \/ dk.kret[t].materials = "DecryptionMaterials" /\ dk.kret[t].op = "EncryptionKey")
            => (dk.kret[t].outcome = "err" /\ dk.kpc[t] # "panic")

\* C23: raw encryption or decryption materials over a signing keyset as the
\* encryption / decryption key are refused with an error, and construction
\* succeeds only over an AEAD or deterministic-AEAD key.
C23_RawMaterialsRefuseSigningKeys ==
    \A t \in KeyThreads :
        dk.kret[t].op \in {"NewRawEncryptionMaterials", "NewRawDecryptionMaterials"}
            => /\ dk.kret[t].key = "EcdsaPrivateKey" => dk.kret[t].outcome = "err"
               /\ (dk.kret[t].outcome = "ok" /\ dk.kret[t].key # "nil")
                    => dk.kret[t].key \in {"AesGcmKey", "AesSivKey"}

\* The keyset of key kh cannot give the primitive the method needs.
NoPrimitive(kh, method) ==
    IF UsesSigner(method) THEN ~NewSignerOk(kh) ELSE ~aeadNewOk(kh)

\* C29: every Encrypt, Decrypt or Sign on a key whose keyset cannot give the
\* primitive returns an error, the first call and every later or racing
\* one, and none goes on with a nil primitive.
C29_EveryCallOnWrongKeysetReturnsError ==
    \A t \in KeyThreads :
        /\ (dk.kret[t].op \in KeyMethods /\ NoPrimitive(dk.kret[t].key, dk.kret[t].op))
              => dk.kret[t].outcome = "err"
        /\ (dk.kpc[t] = "ret" /\ NoPrimitive(dk.kop[t].key, dk.kop[t].method))
              => dk.kop[t].err


(***************************************************************************)
(* Claim about attribute names, checked under PipeSpec.                    *)
(***************************************************************************)
\* C27: under every attribute-action configuration the item encryptItem
\* hands to the store has exactly the attribute names of the caller's item,
\* and the item decryptItem returns has exactly the attribute names of the
\* stored item.
C27_AttributeNamesKept ==
    /\ \A h \in obs.handed : DOMAIN h[2] = DOMAIN h[1]
    /\ (obs.kind = "get" /\ obs.ok) => DOMAIN obs.got = DOMAIN obs.stored


(***************************************************************************)
(* NameSpec: one caller puts, gets and deletes items whose key values      *)
(* contain the separator of the material name.                             *)
(***************************************************************************)
NamePKs == {"a", "a-b"}
NameSKs == {"c", "b-c"}

NameKeyItems ==
    {[n \in {"PK"} \cup (IF HasRange(keySchema) THEN {"SK"} ELSE {}) |->
         IF n = "PK" THEN AvS(pk) ELSE AvS(sk)] : pk \in NamePKs, sk \in NameSKs}

NameItems ==
    {[n \in DOMAIN k \cup {"A"} |-> IF n = "A" THEN probe ELSE k[n]] :
        k \in NameKeyItems}

\* The store's deletes of every version Query returned for the name.
RECURSIVE DeleteVersions(_, _, _)
DeleteVersions(ms, materialName, versions) ==
    IF versions = <<>> THEN ms
    ELSE DeleteVersions(MatDelete(ms, <<materialName, Head(versions)>>),
                        materialName, Tail(versions))

\* EncryptedClient.DeleteItem with a reliable store: the store's DeleteItem,
\* the schema, the material name of the key, the Query for its versions and
\* a delete of each.
PDeleteItem(keyItem) ==
    LET pkInfo == getPrimaryKeyInfo(PrimaryKeyCache, keySchema)
        name == ConstructMaterialName(keyItem, pkInfo)
    IN /\ steps < MaxPipeSteps
       /\ steps' = steps + 1
       /\ table' = TableDelete(table, StoreKey(keyItem, keySchema))
       /\ plain' = TableDelete(plain, StoreKey(keyItem, keySchema))
       /\ PrimaryKeyCache' = CacheAfter(PrimaryKeyCache, keySchema)
       /\ matStore' = DeleteVersions(matStore, name, QueryVersions(matStore, name))
       /\ obs' = [NoObs EXCEPT !.kind = "delete", !.ok = TRUE,
                               !.key = StoreKey(keyItem, keySchema), !.name = name]
       /\ UNCHANGED <<keySchema, actions, probe, fresh, signedAt>>
       /\ UNCHANGED <<specVars, auxVars>>

NameNext ==
    \/ \E item \in NameItems : PPutItem(item)
    \/ \E k \in NameKeyItems : PGetItem(k)
    \/ \E k \in NameKeyItems : PDeleteItem(k)

NameSpec == Init /\ [][NameNext]_vars

(***************************************************************************)
(* Claim about material names of distinct items (NameSpec).                *)
(***************************************************************************)
\* The material records stored for the logical item with primary key key.
RecordsOf(key, ms) ==
    LET keyItem == CHOOSE k \in NameKeyItems : StoreKey(k, keySchema) = key
        name == ConstructMaterialName(keyItem, TableInfo(keySchema))
    IN [k \in {x \in DOMAIN ms : x[1] = name} |-> ms[k]]

\* C28: the pre-hash strings of two stored items with different primary
\* keys differ, and a PutItem or DeleteItem of one logical item leaves the
\* material records of every other logical item as they were.
C28_DistinctItemsDistinctNames ==
    /\ [](\A k1, k2 \in DOMAIN table :
             k1 # k2 => RawMaterialName(table[k1], TableInfo(keySchema))
                          # RawMaterialName(table[k2], TableInfo(keySchema)))
    /\ [][\A k \in NameKeyItems :
             (obs'.kind \in {"put", "delete"} /\ StoreKey(k, keySchema) # obs'.key)
                => RecordsOf(StoreKey(k, keySchema), matStore')
                     = RecordsOf(StoreKey(k, keySchema), matStore)]_vars


====
